---- MODULE Spec2Model ----
(***************************************************************************)
(* Verification model of the wombatpipi detector core:                     *)
(*   functions.py      feature extraction, peak tracker, two-digit codes,   *)
(*                     AdaptiveMovingAverage                                *)
(*   serial_reader.py  acquisition loop, data_buffer, latest_curve          *)
(*   sound.py          oscillator: frequency, volume, phase, audio callback *)
(*                                                                         *)
(* Numbers.  Python floats are modelled as exact rationals.                 *)
(*  - A feature value q (total_sum, first_half_sum, second_half_sum, diff,  *)
(*    cumulative_total, peak) is held as the integer FScale*q; FScale is    *)
(*    the least common multiple of the two window divisors 10 and 6, so     *)
(*    the divisions of extract_signal_features are exact on integer input.  *)
(*  - ratio is held as a fraction [n, d] with d > 0.                        *)
(***************************************************************************)
EXTENDS Integers, Sequences, FiniteSets, TLC

VARIABLES
    current_features,   \* functions.current_features (dict)
    last,               \* the last call made: its arguments, the peak, ratio
                        \* and cumulative_total it found, and what it returned
    calls,              \* number of update_peak_tracker calls made so far
    nlast,              \* the last normalize_samples call: its arguments and
                        \* what it returned
    peak_call,          \* whether a call since the last reset set a new peak
                        \* and the ratio that call computed; the ratio left
                        \* over at the last reset and at the one before
    filt,               \* an AdaptiveMovingAverage object: size, alpha_slow,
                        \* alpha_fast, average (a reference into heap),
                        \* initialized
    heap,               \* the arrays and lists that exist, by reference
    callerIn,           \* the list the caller passed to the last update (0: none)
    callerOut,          \* the array the caller got back last (0: none)
    smooth,             \* smoothing updates since the average was last set
                        \* to an input or to zeros
    flast,              \* the last call on the filter: what it was given,
                        \* what it returned or raised
    data_buffer,        \* serial_reader.data_buffer, deque(maxlen = 100)
    latest_curve,       \* serial_reader.latest_curve (NoCurve: None)
    long_average_curve, \* the baseline filter and its array
    fast_average_curve, \* the signal filter and its array
    enable_sound,       \* serial_reader.enable_sound
    clock,              \* time.time(): one tick per stored curve
    arrived,            \* the curves appended since the last clear_buffer
    rlast,              \* what the last pass of the acquisition loop did
    serial_port,        \* serial_reader.serial_port (NoPort: None)
    is_reading,         \* serial_reader.is_reading
    read_thread,        \* serial_reader.read_thread is a thread object
    at_while,           \* number of loop threads at the test of the while
    in_pass,            \* number of loop threads inside a pass of the loop
    starters,           \* callers of start_reading between its checks and
                        \* its assignment to is_reading
    joining,            \* a caller of stop_reading waits in join
    pending,            \* the curve a pass has appended and not yet assigned
                        \* to latest_curve
    clearing,           \* clear_buffer has cleared data_buffer and not yet
                        \* reset the rest
    held,               \* what the reader got from its last call and holds
    updating,           \* the line of a pass that has updated the baseline
                        \* filter and not yet the signal filter
    updates,            \* the number of updates of each filter since its
                        \* last reset
    is_playing,         \* sound.is_playing
    stream,             \* sound.stream (NoStream: None)
    phase,              \* sound.phase
    current_frequency,  \* sound.current_frequency
    current_volume,     \* sound.current_volume
    streams_open,       \* output streams opened and not closed
    cb,                 \* the block the audio callback is in the middle of
    sc,                 \* the soundscape call in progress
    prev,               \* the last block the callback completed
    run,                \* samples and blocks generated since the tone started
    slast,              \* the last call on the oscillator
    starting,           \* callers of start_tone that have set is_playing and
                        \* not yet opened their stream
    stopping,           \* callers of stop_tone that have cleared is_playing
                        \* and not yet closed the stream
    running,            \* VoiceEngine.running, WavPlayer.running
    queue,              \* the items of self.queue, oldest first
    at_test,            \* worker threads at the test of their while
    at_get,             \* worker threads in queue.get
    speaking,           \* the items worker threads are playing
    stop_joining,       \* the caller of stop is in its join
    spoken,             \* the items played, in the order they ended
    said,               \* the calls of say or say_number that returned True
    stops,              \* the calls of stop that found the flag set
    vlast               \* the last call on the engine and what it found, or
                        \* the Empty a worker's get raised since

peakVars == <<current_features, last, calls, nlast, peak_call>>

filterVars == <<filt, heap, callerIn, callerOut, smooth, flast>>

threadVars == <<serial_port, is_reading, read_thread, at_while, in_pass, starters,
                joining>>

readerVars == <<pending, clearing, held, updating, updates>>

storeVars == <<data_buffer, latest_curve, long_average_curve, fast_average_curve,
               enable_sound, clock, arrived, rlast, threadVars, readerVars>>

toneVars == <<starting, stopping>>

soundVars == <<is_playing, stream, phase, current_frequency, current_volume,
               streams_open, cb, sc, prev, run, slast, toneVars>>

voiceVars == <<running, queue, at_test, at_get, speaking, stop_joining, spoken,
               said, stops, vlast>>

vars == <<peakVars, filterVars, storeVars, soundVars, voiceVars>>

(***************************************************************************)
(* Arithmetic helpers                                                      *)
(***************************************************************************)
Max(a, b) == IF a >= b THEN a ELSE b

Min(a, b) == IF a <= b THEN a ELSE b

Abs(a) == IF a < 0 THEN -a ELSE a

RECURSIVE SumSeq(_)
SumSeq(s) == IF s = <<>> THEN 0 ELSE Head(s) + SumSeq(Tail(s))

\* n/d rounded to the nearest integer (halves upward), d > 0
RoundDiv(n, d) == (2 * n + d) \div (2 * d)

\* int(x) of Python for the rational n/d, d > 0: truncation toward zero
TruncDiv(n, d) == IF n >= 0 THEN n \div d ELSE -((-n) \div d)

\* a fraction with a positive denominator
Frac(n, d) == IF d < 0 THEN [n |-> -n, d |-> -d] ELSE [n |-> n, d |-> d]

(***************************************************************************)
(* Python slicing  s[start:stop]  for start >= 0; stop may be negative      *)
(* (counted from the end) as in samples[start_index:-end_trim].             *)
(***************************************************************************)
PySlice(s, start, stop) ==
    LET n  == Len(s)
        lo == Min(start, n)
        hi == IF stop < 0 THEN Max(n + stop, 0) ELSE Min(stop, n)
    IN  IF hi <= lo THEN <<>> ELSE SubSeq(s, lo + 1, hi)

\* s[:k]
PyFirst(s, k) == PySlice(s, 0, k)

\* s[-k:]
PyLast(s, k) == PySlice(s, Max(Len(s) - k, 0), Len(s))

(***************************************************************************)
(* functions.py: feature set                                               *)
(***************************************************************************)
FirstWindow == 10

SecondWindow == 6

FirstDivisor == 10

SecondDivisor == 6

PeakThreshold == 10

RECURSIVE Gcd(_, _)
Gcd(a, b) == IF b = 0 THEN a ELSE Gcd(b, a % b)

\* the fixed-point scale of the feature values
FScale == (FirstDivisor * SecondDivisor) \div Gcd(FirstDivisor, SecondDivisor)

InitFeatures ==
    [ total_sum        |-> 0,
      first_half_sum   |-> 0,
      second_half_sum  |-> 0,
      diff             |-> 0,
      cumulative_total |-> 0,
      peak             |-> 0,
      timestamp        |-> 0,
      ratio            |-> Frac(0, 1) ]

\* extract_signal_features(samples, start_index, end_trim): the feature set
\* after the call.  samples are integers (unscaled); results are FScale-scaled.
ExtractFeatures(cf, samples, start_index, end_trim) ==
    LET subset == IF end_trim > 0
                  THEN PySlice(samples, start_index, -end_trim)
                  ELSE PySlice(samples, start_index, Len(samples))
    IN  IF Len(subset) = 0
        THEN [cf EXCEPT !.total_sum = 0, !.first_half_sum = 0,
                        !.second_half_sum = 0, !.diff = 0]
        ELSE LET total_sum       == SumSeq(subset)
                 first_half      == PyFirst(subset, FirstWindow)
                 second_half     == PyLast(subset, SecondWindow)
                 first_half_sum  == (FScale \div FirstDivisor) * SumSeq(first_half)
                 second_half_sum == (FScale \div SecondDivisor) * SumSeq(second_half)
                 diff1           == first_half_sum - second_half_sum
             IN  [cf EXCEPT !.total_sum = FScale * total_sum,
                            !.first_half_sum = first_half_sum,
                            !.second_half_sum = second_half_sum,
                            !.diff = diff1]

(***************************************************************************)
(* functions.py: normalize_samples                                         *)
(* The samples are integers; a normalized value is a fraction [n, d].  The  *)
(* argument last is [given, v]: not given, it is None.                      *)
(***************************************************************************)
NoLast == [given |-> FALSE, v |-> 0]

Last(v) == [given |-> TRUE, v |-> v]

\* the position a slice bound i stands for in a list of n elements
PyBound(i, n) == IF i < 0 THEN Max(n + i, 0) ELSE Min(i, n)

\* s[first:last] for bounds of either sign
PySliceAny(s, first, stop) ==
    LET lo == PyBound(first, Len(s))
        hi == PyBound(stop, Len(s))
    IN  IF hi <= lo THEN <<>> ELSE SubSeq(s, lo + 1, hi)

RECURSIVE MinSeq(_)
MinSeq(s) == IF Len(s) = 1 THEN s[1] ELSE Min(s[1], MinSeq(Tail(s)))

RECURSIVE MaxSeq(_)
MaxSeq(s) == IF Len(s) = 1 THEN s[1] ELSE Max(s[1], MaxSeq(Tail(s)))

\* normalize_samples(samples, first, last): the list returned
NormalizeSamples_bymax(samples, first, last_) ==
    LET subset == PySliceAny(samples, first,
                             IF last_.given THEN last_.v ELSE Len(samples))
    IN  IF Len(subset) = 0 THEN <<>>
        ELSE IF MaxSeq(subset) > 0
             THEN [i \in 1..Len(subset) |-> Frac(subset[i], MaxSeq(subset))]
             ELSE [i \in 1..Len(subset) |-> Frac(1, 2)]

NormalizeSamples(samples, first, last_) ==
    LET subset == PySliceAny(samples, first,
                             IF last_.given THEN last_.v ELSE Len(samples))
    IN  IF Len(subset) = 0 THEN <<>>
        ELSE LET min_val   == MinSeq(subset)
                 max_val   == MaxSeq(subset)
                 val_range == max_val - min_val
             IN  IF val_range > 0
                 THEN [i \in 1..Len(subset) |-> Frac(subset[i] - min_val, val_range)]
                 ELSE [i \in 1..Len(subset) |-> Frac(1, 2)]

(***************************************************************************)
(* functions.py: force_two_digit                                           *)
(* A value is [kind, n, d]: kind "num" is the finite number n/d; "nan" and  *)
(* "inf" are the float specials; "text" is a string that float() rejects;   *)
(* "none" is None.  Strings are sequences of one-character strings.         *)
(***************************************************************************)
Num(n, d) == [kind |-> "num", n |-> Frac(n, d).n, d |-> Frac(n, d).d]

Special(k) == [kind |-> k, n |-> 0, d |-> 1]

DigitChars == <<"0", "1", "2", "3", "4", "5", "6", "7", "8", "9">>

RECURSIVE DecimalDigits(_)
DecimalDigits(n) ==
    IF n < 10 THEN <<DigitChars[n + 1]>>
    ELSE DecimalDigits(n \div 10) \o <<DigitChars[(n % 10) + 1]>>

RECURSIVE ZeroPad(_, _)
ZeroPad(s, width) == IF Len(s) >= width THEN s ELSE ZeroPad(<<"0">> \o s, width)

\* f"{num:02d}": minimum width 2, zero filled after the sign
Format02d(num) ==
    IF num < 0 THEN <<"-">> \o ZeroPad(DecimalDigits(-num), 1)
    ELSE ZeroPad(DecimalDigits(num), 2)

\* The result of force_two_digit: [kind |-> "str", s |-> ...] or the
\* exception that leaves the function (int(inf) raises OverflowError, which
\* the except clause does not name).
force_two_digit_round(value) ==
    IF value.kind = "num"
    THEN [kind |-> "str",
          s |-> Format02d(Max(0, Min(99, RoundDiv(value.n, value.d))))]
    ELSE IF value.kind = "inf"
    THEN [kind |-> "OverflowError", s |-> <<>>]
    ELSE [kind |-> "str", s |-> <<"0", "0">>]

force_two_digit_noclamp(value) ==
    IF value.kind = "num"
    THEN [kind |-> "str", s |-> Format02d(TruncDiv(value.n, value.d))]
    ELSE IF value.kind = "inf"
    THEN [kind |-> "OverflowError", s |-> <<>>]
    ELSE [kind |-> "str", s |-> <<"0", "0">>]

force_two_digit(value) ==
    IF value.kind = "num"
    THEN [kind |-> "str",
          s |-> Format02d(Max(0, Min(99, TruncDiv(value.n, value.d))))]
    ELSE IF value.kind = "inf"
    THEN [kind |-> "OverflowError", s |-> <<>>]
    ELSE [kind |-> "str", s |-> <<"0", "0">>]

(***************************************************************************)
(* functions.py: update_peak_tracker                                       *)
(***************************************************************************)
NoEvent == [kind |-> "False", num |-> <<>>]

PlayEvent(num) == [kind |-> "play", num |-> num]

\* line 262: the reset fires a trigger
PeakAboveThreshold_ge(peak) == peak >= PeakThreshold * FScale

PeakAboveThreshold(peak) == peak > PeakThreshold * FScale

\* lines 283-286: the conductivity ratio taken at a new peak
NewRatio_inverse(cf) ==
    IF cf.second_half_sum # 0
    THEN Frac(cf.first_half_sum, cf.second_half_sum)
    ELSE Frac(0, 1)

NewRatio(cf) ==
    IF cf.first_half_sum # 0
    THEN Frac(cf.second_half_sum, cf.first_half_sum)
    ELSE Frac(0, 1)

\* line 268: the peak a reset leaves
ResetPeak_keep(current, old_peak) == old_peak

ResetPeak(current, old_peak) == Max(current, 0)

\* The whole call: [cf |-> feature set on return, ret |-> returned value].
PeakTrackerCall(cf, key) ==
    LET current           == cf[key]
        play_conductivity == current < 0 /\ PeakAboveThreshold(cf.peak)
        getratio          == IF play_conductivity
                             THEN Num(100 * cf.ratio.n, cf.ratio.d)
                             ELSE Num(0, 1)
        reset             == IF current < 0
                             THEN [cf EXCEPT !.cumulative_total = 0,
                                             !.peak = ResetPeak(current, cf.peak)]
                             ELSE cf
    IN  IF play_conductivity
        THEN [cf |-> reset, ret |-> PlayEvent(force_two_digit(getratio).s)]
        ELSE LET acc == [reset EXCEPT !.cumulative_total = @ + current]
                 upd == IF current > acc.peak
                        THEN [acc EXCEPT !.peak = current, !.ratio = NewRatio(acc)]
                        ELSE acc
             IN  [cf |-> upd, ret |-> NoEvent]

(***************************************************************************)
(* functions.py: AdaptiveMovingAverage                                     *)
(*                                                                         *)
(* A value q of a list or array is held as the integer VScale*q.  A rate is *)
(* a fraction [n, d].  VScale is RateDen^MaxSmooth, RateDen the common      *)
(* denominator of the rates, so that MaxSmooth successive smoothing steps   *)
(* of inputs that are whole numbers are computed exactly.                   *)
(*                                                                         *)
(* Lists and arrays live in heap, a function from references to objects    *)
(* [v, dtype]: dtype "float64" or "int64" for a numpy array, "pyfloat" or   *)
(* "pyint" for a Python list of floats or of ints, "free" for none.         *)
(***************************************************************************)
MaxSmooth == 2

NAddr == 4

Addr == 1..NAddr

Sizes == {2}

AlphaRates == {Frac(1, 2), Frac(1, 1), Frac(3, 2)}

RECURSIVE Pow(_, _)
Pow(b, e) == IF e = 0 THEN 1 ELSE b * Pow(b, e - 1)

Lcm(a, b) == (a * b) \div Gcd(a, b)

RECURSIVE LcmOfSet(_)
LcmOfSet(S) ==
    IF S = {} THEN 1
    ELSE LET x == CHOOSE y \in S : TRUE IN Lcm(x, LcmOfSet(S \ {x}))

RateDen == LcmOfSet({r.d : r \in AlphaRates})

VScale == Pow(RateDen, MaxSmooth)

Free == [v |-> <<>>, dtype |-> "free"]

\* the smallest reference not in use
Alloc(h) == CHOOSE a \in Addr : h[a] = Free /\ \A b \in Addr : h[b] = Free => a <= b

\* np.zeros(size)
NpZeros(size) == [v |-> [i \in 1..size |-> 0], dtype |-> "float64"]

\* np.array(new_values): a new array; the dtype numpy infers for a list
NpArray(obj) ==
    [v |-> obj.v,
     dtype |-> IF obj.dtype = "pyint" /\ Len(obj.v) > 0 THEN "int64"
               ELSE IF obj.dtype \in {"pyint", "pyfloat"} THEN "float64"
               ELSE obj.dtype]

\* the value an array of this dtype stores for the exact result num/den
\* (num in VScale units): an int64 array truncates toward zero
StoreItem(dtype, num, den) ==
    IF dtype = "int64" THEN TruncDiv(num, den * VScale) * VScale
    ELSE num \div den

\* line 33
SizeMismatch_longer(new_values, size) == Len(new_values) > size

SizeMismatch(new_values, size) == Len(new_values) # size

\* lines 45-50
SelectAlpha_swapped(x, avg, alpha_slow, alpha_fast) ==
    IF x < avg THEN alpha_slow ELSE alpha_fast

SelectAlpha(x, avg, alpha_slow, alpha_fast) ==
    IF x < avg THEN alpha_fast ELSE alpha_slow

\* line 53 for one element, before it is stored: [num, den]
Ema(alpha, x, avg) == [num |-> alpha.n * x + (alpha.d - alpha.n) * avg, den |-> alpha.d]

\* lines 44-53: the loop over range(size).  new_array[i] past the end of a
\* shorter array raises IndexError after the elements before it were written.
SmoothedItem(dtype, x, avg, alpha_slow, alpha_fast) ==
    LET e == Ema(SelectAlpha(x, avg, alpha_slow, alpha_fast), x, avg)
    IN  StoreItem(dtype, e.num, e.den)

Smoothed(average, new_array, f) ==
    [v |-> [i \in 1..Len(average.v) |->
               IF i <= f.size /\ i <= Len(new_array.v)
               THEN SmoothedItem(average.dtype, new_array.v[i], average.v[i],
                                 f.alpha_slow, f.alpha_fast)
               ELSE average.v[i]],
     dtype |-> average.dtype]

\* every division of the loop is exact in the model's units
SmoothedExactly(average, new_array, f) ==
    \A i \in 1..Len(average.v) :
        (i <= f.size /\ i <= Len(new_array.v) /\ average.dtype # "int64") =>
            LET e == Ema(SelectAlpha(new_array.v[i], average.v[i],
                                     f.alpha_slow, f.alpha_fast),
                         new_array.v[i], average.v[i])
            IN  e.num % e.den = 0

\* lines 55 and 59: self.average.copy(), a new array
\* [heap |-> the heap after, ref |-> the reference returned]
AverageCopy_alias(h, f) == [heap |-> h, ref |-> f.average]

AverageCopy(h, f) ==
    LET a == Alloc(h) IN [heap |-> [h EXCEPT ![a] = h[f.average]], ref |-> a]

\* lines 38-41: the first update stores a copy of the new array
FirstUpdate_smoothed(h, f, new_array) ==
    [heap |-> [h EXCEPT ![f.average] = Smoothed(h[f.average], new_array, f)],
     filt |-> [f EXCEPT !.initialized = TRUE]]

FirstUpdate(h, f, new_array) ==
    LET a == Alloc(h)
    IN  [heap |-> [h EXCEPT ![a] = new_array],
         filt |-> [f EXCEPT !.average = a, !.initialized = TRUE]]

\* update(new_values), new_values the list at inRef:
\* [heap, filt, ret (the reference returned, 0 if none), raised]
AmaUpdate(h, f, inRef) ==
    IF SizeMismatch(h[inRef].v, f.size)
    THEN [heap |-> h, filt |-> f, ret |-> 0, raised |-> "ValueError"]
    ELSE LET new_array == NpArray(h[inRef])
         IN  IF ~f.initialized
             THEN LET s == FirstUpdate(h, f, new_array)
                      c == AverageCopy(s.heap, s.filt)
                  IN  [heap |-> c.heap, filt |-> s.filt, ret |-> c.ref, raised |-> ""]
             ELSE LET h1 == [h EXCEPT ![f.average] = Smoothed(h[f.average], new_array, f)]
                  IN  IF Len(new_array.v) < f.size
                      THEN [heap |-> h1, filt |-> f, ret |-> 0, raised |-> "IndexError"]
                      ELSE LET c == AverageCopy(h1, f)
                           IN  [heap |-> c.heap, filt |-> f, ret |-> c.ref, raised |-> ""]

\* reset(): fill(0) writes the existing array
AmaReset(h, f) ==
    [heap |-> [h EXCEPT ![f.average].v = [i \in 1..Len(h[f.average].v) |-> 0]],
     filt |-> [f EXCEPT !.initialized = FALSE]]

\* set_alphas(alpha_slow, alpha_fast); None leaves a rate as it is
None == [n |-> 0, d |-> 0]

AmaSetAlphas(f, alpha_slow, alpha_fast) ==
    [f EXCEPT !.alpha_slow = IF alpha_slow # None THEN alpha_slow ELSE @,
              !.alpha_fast = IF alpha_fast # None THEN alpha_fast ELSE @]

\* what is no longer referenced is gone
Collect(h, roots) == [a \in Addr |-> IF a \in roots THEN h[a] ELSE Free]

(***************************************************************************)
(* sound.py: the oscillator                                                *)
(*                                                                         *)
(* Numbers.  current_volume is held as the integer VolScale * volume,       *)
(* current_frequency in whole Hz, and phase as the integer                  *)
(* sample_rate * phase / (2*pi), so that one sample at 1 Hz advances the    *)
(* phase by one unit and 2*pi is sample_rate units.  A signal strength is   *)
(* a fraction [n, d].                                                      *)
(***************************************************************************)
sample_rate == 48000

DefaultFrequency == 440

DefaultVolume == Frac(3, 10)

max_expected_strength == 100

min_volume == Frac(5, 100)

max_volume == Frac(7, 10)

min_freq == 400

max_freq == 1000

VolScale == Lcm(min_volume.d, max_volume.d) * max_expected_strength

\* the volume q in VolScale units
Vol(q) == (VolScale * q.n) \div q.d

NoStream == 0

\* the sd.OutputStream start_tone opens and starts
OpenStream == 1

\* no block or no call
Nothing == [op |-> "none"]

\* a call on the oscillator: its name, its first argument as a fraction, the
\* shape ratio passed to soundscape, and is_playing when it was made
SoundCall(op, arg, ratio, was_playing) ==
    [op |-> op, arg |-> arg, ratio |-> ratio, was_playing |-> was_playing]

\* what the tone has generated since it started: nothing yet
NewRun == [samples |-> 0, blocks |-> 0, frequency |-> 0, constant |-> TRUE]

InitSound ==
    /\ is_playing = FALSE
    /\ stream = NoStream
    /\ phase = 0
    /\ current_frequency = DefaultFrequency
    /\ current_volume = Vol(DefaultVolume)
    /\ streams_open = 0
    /\ cb = Nothing
    /\ sc = Nothing
    /\ prev = Nothing
    /\ run = NewRun
    /\ slast = SoundCall("none", Frac(0, 1), Frac(0, 1), FALSE)
    /\ starting = 0
    /\ stopping = 0

\* set_volume(vol), vol in VolScale units: max(0.0, min(1.0, vol))
SetVolume(vol) == Max(0, Min(VolScale, vol))

\* lines 138 and 145: min(1.0, signal_strength / max_expected_strength)
StrengthRatio(signal_strength) ==
    LET q == Frac(signal_strength.n, signal_strength.d * max_expected_strength)
    IN  IF q.n < q.d THEN q ELSE Frac(1, 1)

\* line 139
SoundscapeVolume(signal_strength) ==
    LET r == StrengthRatio(signal_strength)
    IN  Vol(min_volume) + ((Vol(max_volume) - Vol(min_volume)) * r.n) \div r.d

\* line 146
SoundscapeFrequency(signal_strength) ==
    LET r == StrengthRatio(signal_strength)
    IN  min_freq + ((max_freq - min_freq) * r.n) \div r.d

\* both divisions are exact in the model's units
SoundscapeExactly(signal_strength) ==
    LET r == StrengthRatio(signal_strength)
    IN  /\ ((Vol(max_volume) - Vol(min_volume)) * r.n) % r.d = 0
        /\ ((max_freq - min_freq) * r.n) % r.d = 0

\* start_tone(): [is_playing, stream, phase] on return and the number of
\* streams it opened
StartTone_restart(playing, strm, ph) ==
    [is_playing |-> TRUE, stream |-> OpenStream, phase |-> 0, opened |-> 1]

StartTone(playing, strm, ph) ==
    IF playing
    THEN [is_playing |-> playing, stream |-> strm, phase |-> ph, opened |-> 0]
    ELSE [is_playing |-> TRUE, stream |-> OpenStream, phase |-> 0, opened |-> 1]

\* stop_tone(): [is_playing, stream, phase] on return and the number of
\* streams it closed
StopTone_keeps_phase(playing, strm, ph) ==
    IF ~playing
    THEN [is_playing |-> playing, stream |-> strm, phase |-> ph, closed |-> 0]
    ELSE [is_playing |-> FALSE, stream |-> NoStream, phase |-> ph,
          closed |-> IF strm # NoStream THEN 1 ELSE 0]

StopTone(playing, strm, ph) ==
    IF ~playing
    THEN [is_playing |-> playing, stream |-> strm, phase |-> ph, closed |-> 0]
    ELSE [is_playing |-> FALSE, stream |-> NoStream, phase |-> 0,
          closed |-> IF strm # NoStream THEN 1 ELSE 0]

\* soundscape(signal_strength, signal_shape_ratio): the oscillator on return
Soundscape_nostart(signal_strength, playing, strm, ph) ==
    [current_volume    |-> SoundscapeVolume(signal_strength),
     current_frequency |-> SoundscapeFrequency(signal_strength),
     is_playing |-> playing, stream |-> strm, phase |-> ph, opened |-> 0]

Soundscape(signal_strength, playing, strm, ph) ==
    LET t == IF ~playing THEN StartTone(playing, strm, ph)
             ELSE [is_playing |-> playing, stream |-> strm, phase |-> ph, opened |-> 0]
    IN  [current_volume    |-> SoundscapeVolume(signal_strength),
         current_frequency |-> SoundscapeFrequency(signal_strength),
         is_playing |-> t.is_playing, stream |-> t.stream, phase |-> t.phase,
         opened |-> t.opened]

\* line 77: the argument of np.sin for sample i, 2*pi*frequency*t[i] + phase
SineArg(frequency, i, ph) == frequency * i + ph

\* the argument modulo 2*pi
Wrap(arg) == arg % sample_rate

\* line 83: (phase + 2*pi*frequency*frames/sample_rate) % (2*pi)
PhaseAdvance_nowrap(ph, frequency, frames) == ph + frequency * frames

PhaseAdvance_restart(ph, frequency, frames) == (frequency * frames) % sample_rate

PhaseAdvance(ph, frequency, frames) == (ph + frequency * frames) % sample_rate

\* line 77: the block written to outdata, by the volume, the frequency and
\* the phase its samples were computed from
Block(volume, frequency, ph, frames) ==
    [op |-> "block", volume |-> volume, frequency |-> frequency,
     phase0 |-> ph, frames |-> frames]

(***************************************************************************)
(* serial_reader.py: the acquisition loop and the curve store              *)
(*                                                                         *)
(* A line is the sequence of its comma separated tokens; a token is        *)
(* [kind, v]: "num" a number float() accepts (v in whole units), "empty" a  *)
(* token that is empty after strip(), "bad" any other text.  Inside the     *)
(* loop the feature values carry the factor VScale of the filter values on  *)
(* top of FScale.                                                          *)
(***************************************************************************)
CURVE_SAMPLE_SIZE == 25

TIME_BUFFER_SIZE == 100

sample_interval_us == 3

DefaultStartIndex == 4

DefaultEndTrim == 1

\* an AdaptiveMovingAverage object with the array it owns
AmaNew(size, alpha_slow, alpha_fast) ==
    [f |-> [size |-> size, alpha_slow |-> alpha_slow, alpha_fast |-> alpha_fast,
            average |-> 1, initialized |-> FALSE],
     h |-> [[a \in Addr |-> Free] EXCEPT ![1] = NpZeros(size)]]

\* obj.update(array) called a second time with the same array
ObjUpdate_twice(obj, array) ==
    LET in  == Alloc(obj.h)
        r0  == AmaUpdate([obj.h EXCEPT ![in] = array], obj.f, in)
        h0  == [a \in Addr |-> IF a = 1 THEN r0.heap[r0.filt.average] ELSE Free]
        f0  == [r0.filt EXCEPT !.average = 1]
        r   == AmaUpdate([h0 EXCEPT ![in] = array], f0, in)
    IN  [f |-> [r.filt EXCEPT !.average = 1],
         h |-> [a \in Addr |-> IF a = 1 THEN r.heap[r.filt.average] ELSE Free],
         raised |-> r.raised]

\* obj.update(array) for an array the caller drops: the object after the call
\* and what the call raised
ObjUpdate(obj, array) ==
    LET in == Alloc(obj.h)
        r  == AmaUpdate([obj.h EXCEPT ![in] = array], obj.f, in)
    IN  [f |-> [r.filt EXCEPT !.average = 1],
         h |-> [a \in Addr |-> IF a = 1 THEN r.heap[r.filt.average] ELSE Free],
         raised |-> r.raised]

\* obj.get_average(): the values of the copy
ObjAverage(obj) == obj.h[obj.f.average].v

\* obj.reset()
ObjReset(obj) ==
    [f |-> AmaReset(obj.h, obj.f).filt, h |-> AmaReset(obj.h, obj.f).heap]

\* deque(maxlen = n).append(x): a full deque drops its oldest element
DequeAppend_unbounded(buf, x, maxlen) == Append(buf, x)

DequeAppend(buf, x, maxlen) ==
    IF Len(buf) >= maxlen THEN Append(Tail(buf), x) ELSE Append(buf, x)

NoCurve == [timestamp |-> -1, values |-> <<>>, times_us |-> <<>>]

\* lines 162-166
CurveData(now, compensated) ==
    [timestamp |-> now,
     values    |-> compensated,
     times_us  |-> [i \in 1..CURVE_SAMPLE_SIZE |-> (i - 1) * sample_interval_us]]

\* line 125: [float(x) for x in line.split(',') if x.strip()]
NonEmptyTokens(line) == SelectSeq(line, LAMBDA t : t.kind # "empty")

ParseRaises(line) == \E i \in 1..Len(line) : line[i].kind = "bad"

ParsedValues(line) ==
    LET toks == NonEmptyTokens(line) IN [i \in 1..Len(toks) |-> VScale * toks[i].v]

\* what extract_signal_features returns: it has no return value (lines 216
\* and 237)
ExtractReturn == None

\* lines 140-159: the sound update of one line.  features is what
\* extract_signal_features returned; subscripting None at line 150 raises
\* TypeError, which the except clause at line 158 prints.  strength is the
\* first argument of the soundscape call of line 156 when it is reached.
SoundUpdate(cf, fast, long) ==
    LET fast_signal   == ObjAverage(fast)
        long_baseline == ObjAverage(long)
        normalized    == [i \in 1..Len(fast_signal) |-> fast_signal[i] - long_baseline[i]]
        cf1           == ExtractFeatures(cf, normalized, DefaultStartIndex, DefaultEndTrim)
        features      == ExtractReturn
    IN  IF features = None
        THEN [features |-> cf1, raised |-> "TypeError", called |-> FALSE,
              strength |-> Frac(0, 1)]
        ELSE [features |-> cf1, raised |-> "", called |-> TRUE,
              strength |-> Frac(features.first_half_sum, FScale * VScale)]

\* lines 139-159: the sound block, entered only when enable_sound is set
SoundStep_ungated(enabled, cf, fast, long) == SoundUpdate(cf, fast, long)

SoundStep(enabled, cf, fast, long) ==
    IF enabled
    THEN SoundUpdate(cf, fast, long)
    ELSE [features |-> cf, raised |-> "", called |-> FALSE, strength |-> Frac(0, 1)]

(***************************************************************************)
(* The feature set and its callers                                         *)
(***************************************************************************)
MaxCalls == 3

MaxRunCalls == 4

HeadVals == {-20, 20, 140}

TailVals == {-20, 20}

SampleLens == {0, 8}

StartIndexes == {0}

EndTrims == {0, 1}

\* a sample list: a first sample h followed by a flat tail of t
MkSamples(h, t, n) == [i \in 1..n |-> IF i = 1 THEN h ELSE t]

SampleInputs == {MkSamples(h, t, n) : h \in HeadVals, t \in TailVals, n \in SampleLens}

Keys == {"diff", "total_sum"}

TwoDigitInputs ==
    {Num(n, 10) : n \in {-15, 126, 1234}}
        \cup {Special(k) : k \in {"nan", "inf", "text", "none"}}

NoCall == [op |-> "none", key |-> "", arg |-> Num(0, 1),
           peak |-> 0, ratio |-> Frac(0, 1), cumulative_total |-> 0,
           ret |-> NoEvent]

NoNormalize == [op |-> "none", samples |-> <<>>, first |-> 0, last |-> NoLast,
                ret |-> <<>>]

NoPeakCall == [made |-> FALSE, ratio |-> Frac(0, 1), left_over |-> Frac(0, 1),
               before |-> Frac(0, 1)]

InitPeak ==
    /\ current_features = InitFeatures
    /\ last = NoCall
    /\ calls = 0
    /\ nlast = NoNormalize
    /\ peak_call = NoPeakCall

extract_signal_features(samples, start_index, end_trim) ==
    /\ current_features' = ExtractFeatures(current_features, samples, start_index, end_trim)
    /\ last' = [NoCall EXCEPT !.op = "extract_signal_features"]
    /\ UNCHANGED <<calls, nlast, peak_call>>
    /\ UNCHANGED <<filterVars, storeVars, soundVars, voiceVars>>

update_peak_tracker(key) ==
    /\ calls < MaxRunCalls
    /\ LET r == PeakTrackerCall(current_features, key)
       IN  /\ current_features' = r.cf
           /\ last' = [NoCall EXCEPT !.op = "update_peak_tracker", !.key = key,
                                     !.peak = current_features.peak,
                                     !.ratio = current_features.ratio,
                                     !.cumulative_total = current_features.cumulative_total,
                                     !.ret = r.ret]
    /\ calls' = calls + 1
    /\ LET current == current_features[key]
       IN  peak_call' =
             IF current < 0
             THEN [made |-> FALSE, ratio |-> Frac(0, 1),
                   left_over |-> current_features.ratio,
                   before |-> peak_call.left_over]
             ELSE IF current > current_features.peak
             THEN [peak_call EXCEPT
                     !.made = TRUE,
                     !.ratio = IF current_features.first_half_sum # 0
                               THEN Frac(current_features.second_half_sum,
                                         current_features.first_half_sum)
                               ELSE Frac(0, 1)]
             ELSE peak_call
    /\ UNCHANGED nlast
    /\ UNCHANGED <<filterVars, storeVars, soundVars, voiceVars>>

call_force_two_digit(value) ==
    /\ last' = [NoCall EXCEPT !.op = "force_two_digit", !.arg = value,
                              !.ret = [kind |-> force_two_digit(value).kind,
                                       num  |-> force_two_digit(value).s]]
    /\ UNCHANGED <<current_features, calls, nlast, peak_call>>
    /\ UNCHANGED <<filterVars, storeVars, soundVars, voiceVars>>

normalize_samples(samples, first, last_) ==
    /\ nlast' = [op |-> "normalize_samples", samples |-> samples, first |-> first,
                 last |-> last_, ret |-> NormalizeSamples(samples, first, last_)]
    /\ UNCHANGED <<current_features, last, calls, peak_call>>
    /\ UNCHANGED <<filterVars, storeVars, soundVars, voiceVars>>

NextPeak ==
    \/ \E samples \in SampleInputs, start_index \in StartIndexes, end_trim \in EndTrims :
          extract_signal_features(samples, start_index, end_trim)
    \/ \E key \in Keys : calls < MaxCalls /\ update_peak_tracker(key)
    \/ \E value \in TwoDigitInputs : call_force_two_digit(value)

\* sample lists whose diff is negative, above the threshold, and higher still
\* with another ratio
RunHeads == {20, 200, 400}

RunSamples == {MkSamples(h, 20, 8) : h \in RunHeads}

NextRuns ==
    \/ \E samples \in RunSamples : extract_signal_features(samples, 0, 0)
    \/ \E key \in Keys : update_peak_tracker(key)

\* the documented examples and inputs around them
Ramp(n) == [i \in 1..n |-> 10 * i]

RampLens == 0..10

ExampleStarts == 0..3

ExampleTrims == 0..2

NormalizeExample == <<100, 200, 500, 1000, 800, 600, 50>>

NormalizeInputs == {NormalizeExample, <<7, 7, 7>>, <<-3, 5>>, <<>>}

NormalizeFirsts == {0, 1, -2}

NormalizeLasts == {NoLast, Last(-1), Last(2), Last(0)}

NextExamples ==
    \/ \E n \in RampLens, start_index \in ExampleStarts, end_trim \in ExampleTrims :
          extract_signal_features(Ramp(n), start_index, end_trim)
    \/ \E samples \in NormalizeInputs, first \in NormalizeFirsts, last_ \in NormalizeLasts :
          normalize_samples(samples, first, last_)

(***************************************************************************)
(* One AdaptiveMovingAverage and its caller.  The caller calls update,      *)
(* get_average, reset and set_alphas; when it keeps the list it passed and  *)
(* the array it got back it may write into them later.                      *)
(***************************************************************************)
InVals == {0, 2}

WrongLens == {1, 3}

MutVal == 7

WriteIndexes == {1}

RightLists ==
    {[v |-> [i \in 1..n |-> VScale * (IF i = 1 THEN a ELSE b)], dtype |-> t] :
        a \in InVals, b \in InVals, n \in Sizes, t \in {"pyint", "pyfloat"}}

WrongLists ==
    {[v |-> [i \in 1..n |-> VScale * a], dtype |-> "pyfloat"] :
        a \in InVals, n \in WrongLens}

InputLists == RightLists \cup WrongLists

NoFilterCall == [op |-> "none", raised |-> "", arg |-> <<>>, ret |-> <<>>, exact |-> TRUE]

Called(op) == [NoFilterCall EXCEPT !.op = op]

\* References carry no meaning but identity: after each call the objects
\* still referenced are renumbered 1 (the average), 2 (the caller's list),
\* 3 (the caller's array); two references to one object stay equal.
Renumber(a, avg, in) ==
    IF a = 0 THEN 0 ELSE IF a = avg THEN 1 ELSE IF a = in THEN 2 ELSE 3

Compact(h, avg, in, out) ==
    [b \in Addr |->
        IF b = 1 THEN h[avg]
        ELSE IF b = 2 /\ in \notin {0, avg} THEN h[in]
        ELSE IF b = 3 /\ out \notin {0, avg, in} THEN h[out]
        ELSE Free]

\* __init__(size, alpha_slow, alpha_fast)
AmaInit(size, alpha_slow, alpha_fast) ==
    /\ filt = AmaNew(size, alpha_slow, alpha_fast).f
    /\ heap = AmaNew(size, alpha_slow, alpha_fast).h

InitCaller ==
    /\ callerIn = 0
    /\ callerOut = 0
    /\ smooth = 0
    /\ flast = NoFilterCall

InitFilter ==
    /\ \E size \in Sizes, alpha_slow \in AlphaRates, alpha_fast \in AlphaRates :
          AmaInit(size, alpha_slow, alpha_fast)
    /\ InitCaller

\* a filter constructed with rates 1/2 and 1
InitFilterFixed ==
    /\ \E size \in Sizes : AmaInit(size, Frac(1, 2), Frac(1, 1))
    /\ InitCaller

update(new_values, keep) ==
    /\ SizeMismatch(new_values.v, filt.size) \/ ~filt.initialized \/ smooth < MaxSmooth
    /\ LET h0  == Collect(heap, {filt.average})
           in  == Alloc(h0)
           h1  == [h0 EXCEPT ![in] = new_values]
           r   == AmaUpdate(h1, filt, in)
           ok  == r.raised = ""
           kin == IF keep THEN in ELSE 0
           out == IF keep THEN r.ret ELSE 0
       IN  /\ filt' = [r.filt EXCEPT !.average = 1]
           /\ callerIn' = Renumber(kin, r.filt.average, kin)
           /\ callerOut' = Renumber(out, r.filt.average, kin)
           /\ heap' = Compact(r.heap, r.filt.average, kin, out)
           /\ smooth' = IF ~ok THEN smooth ELSE IF filt.initialized THEN smooth + 1 ELSE 0
           /\ flast' = [Called("update") EXCEPT
                          !.raised = r.raised,
                          !.arg = new_values.v,
                          !.ret = IF ok THEN r.heap[r.ret].v ELSE <<>>,
                          !.exact = (ok /\ filt.initialized) =>
                                      SmoothedExactly(heap[filt.average], NpArray(new_values), filt)]
    /\ UNCHANGED <<peakVars, storeVars, soundVars, voiceVars>>

get_average(keep) ==
    /\ LET h0  == Collect(heap, {filt.average, callerIn})
           c   == AverageCopy(h0, filt)
           out == IF keep THEN c.ref ELSE 0
       IN  /\ callerOut' = Renumber(out, filt.average, callerIn)
           /\ heap' = Compact(c.heap, filt.average, callerIn, out)
           /\ flast' = [Called("get_average") EXCEPT !.ret = c.heap[c.ref].v]
    /\ UNCHANGED <<filt, callerIn, smooth>>
    /\ UNCHANGED <<peakVars, storeVars, soundVars, voiceVars>>

reset ==
    /\ LET r == AmaReset(heap, filt)
       IN  /\ heap' = r.heap
           /\ filt' = r.filt
    /\ smooth' = 0
    /\ flast' = Called("reset")
    /\ UNCHANGED <<callerIn, callerOut>>
    /\ UNCHANGED <<peakVars, storeVars, soundVars, voiceVars>>

set_alphas(alpha_slow, alpha_fast) ==
    /\ filt' = AmaSetAlphas(filt, alpha_slow, alpha_fast)
    /\ flast' = Called("set_alphas")
    /\ UNCHANGED <<heap, callerIn, callerOut, smooth>>
    /\ UNCHANGED <<peakVars, storeVars, soundVars, voiceVars>>

\* the caller writes element i of a list or array it holds
caller_writes(ref, i) ==
    /\ ref # 0
    /\ i \in 1..Len(heap[ref].v)
    /\ heap[ref].v[i] # VScale * MutVal
    /\ heap' = [heap EXCEPT ![ref].v[i] = VScale * MutVal]
    /\ flast' = [Called("caller_writes") EXCEPT !.arg = <<ref, i>>]
    /\ UNCHANGED <<filt, callerIn, callerOut, smooth>>
    /\ UNCHANGED <<peakVars, storeVars, soundVars, voiceVars>>

NextFilter ==
    \/ \E new_values \in InputLists : update(new_values, FALSE)
    \/ get_average(FALSE)
    \/ reset
    \/ \E alpha_slow \in AlphaRates \cup {None}, alpha_fast \in AlphaRates \cup {None} :
          set_alphas(alpha_slow, alpha_fast)

NextAlias ==
    \/ \E new_values \in InputLists : update(new_values, TRUE)
    \/ get_average(TRUE)
    \/ reset
    \/ \E ref \in {callerIn, callerOut}, i \in WriteIndexes : caller_writes(ref, i)

(***************************************************************************)
(* The acquisition loop, clear_buffer and set_sound_enabled                *)
(***************************************************************************)
MaxClock == 102

MaxLines == 3

LineVals == {5}

\* values whose smoothed averages stay exact over MaxLines lines
LoopVals == {0, 250000}

NumTok(v) == [kind |-> "num", v |-> v]

EmptyTok == [kind |-> "empty", v |-> 0]

BadTok == [kind |-> "bad", v |-> 0]

FlatLine(v, n) == [i \in 1..n |-> NumTok(v)]

\* well formed lines only
StoreLines == {FlatLine(v, CURVE_SAMPLE_SIZE) : v \in LineVals}

\* well formed lines, with and without an empty token, a line one value
\* short, a line one value long, a line with a token that is no number, and
\* the empty line
Lines ==
    {FlatLine(v, CURVE_SAMPLE_SIZE) : v \in LoopVals}
        \cup {FlatLine(v, CURVE_SAMPLE_SIZE) \o <<EmptyTok>> : v \in LoopVals}
        \cup {FlatLine(v, CURVE_SAMPLE_SIZE - 1) : v \in LoopVals}
        \cup {FlatLine(v, CURVE_SAMPLE_SIZE + 1) : v \in LoopVals}
        \cup {FlatLine(v, CURVE_SAMPLE_SIZE - 1) \o <<BadTok>> : v \in LoopVals}
        \cup {<<>>}

\* no pass yet; of a pass: its outcome, whether the line had a token that is
\* no number (bad), its number of non-empty tokens (count), whether sound
\* updates were enabled, what the sound update raised, and how many times
\* soundscape was called
NoPass == [outcome |-> "none", bad |-> FALSE, count |-> 0, sound |-> FALSE,
           raised |-> "", soundscape_calls |-> 0, exact |-> TRUE]

NoPort == "None"

OpenPort == "open"

\* what the reader holds: nothing, or the curves or averages it was handed
NoHeld == [kind |-> "none", curves |-> <<>>, avg |-> <<>>]

NoUpdates == [long |-> 0, fast |-> 0]

InitStore ==
    /\ serial_port = NoPort
    /\ is_reading = FALSE
    /\ read_thread = FALSE
    /\ at_while = 0
    /\ in_pass = 0
    /\ starters = 0
    /\ joining = FALSE
    /\ pending = NoCurve
    /\ clearing = FALSE
    /\ updating = <<>>
    /\ updates = NoUpdates
    /\ held = NoHeld
    /\ data_buffer = <<>>
    /\ latest_curve = NoCurve
    /\ long_average_curve = AmaNew(CURVE_SAMPLE_SIZE, Frac(3, 100), Frac(1, 10))
    /\ fast_average_curve = AmaNew(CURVE_SAMPLE_SIZE, Frac(3, 10), Frac(3, 10))
    /\ enable_sound = TRUE
    /\ clock = 0
    /\ arrived = <<>>
    /\ rlast = NoPass

\* line 127: the line parses to exactly CURVE_SAMPLE_SIZE values
Accepted_anycount(line) ==
    /\ line # <<>>
    /\ ~ParseRaises(line)

Accepted(line) ==
    /\ line # <<>>
    /\ ~ParseRaises(line)
    /\ Len(ParsedValues(line)) = CURVE_SAMPLE_SIZE

\* why a line that is not accepted is dropped
Rejection(line) ==
    IF line = <<>> THEN "empty"
    ELSE IF ParseRaises(line) THEN "parse_error"
    ELSE "wrong_count"

\* the smoothing of obj by the array loses nothing in the model's units
ObjUpdateExactly(obj, array) ==
    ~obj.f.initialized \/ SmoothedExactly(obj.h[obj.f.average], array, obj.f)

\* lines 117-176: the body of the while loop with a line waiting, up to the
\* assignment to latest_curve (publish) or up to the append before it, from
\* its start or (long_done) from after the update of the baseline filter
ReadLoopPass(line, publish, long_done) ==
    /\ clock < MaxClock
    /\ IF ~Accepted(line)
       THEN /\ rlast' = [NoPass EXCEPT !.outcome = Rejection(line),
                                       !.bad = ParseRaises(line),
                                       !.count = Len(NonEmptyTokens(line))]
            /\ UNCHANGED <<data_buffer, latest_curve, long_average_curve,
                           fast_average_curve, clock, arrived, current_features,
                           pending, updates>>
            /\ UNCHANGED soundVars
       ELSE LET compensated == [v |-> ParsedValues(line), dtype |-> "float64"]
                long1       == IF long_done THEN long_average_curve
                               ELSE ObjUpdate(long_average_curve, compensated)
                fast1       == ObjUpdate(fast_average_curve, compensated)
                snd         == SoundStep(enable_sound, current_features, fast1, long1)
                tone        == Soundscape(snd.strength, is_playing, stream, phase)
                curve_data  == CurveData(clock + 1, compensated.v)
            IN  /\ long_average_curve' = [f |-> long1.f, h |-> long1.h]
                /\ fast_average_curve' = [f |-> fast1.f, h |-> fast1.h]
                /\ current_features' = snd.features
                /\ IF snd.called
                   THEN /\ current_volume' = tone.current_volume
                        /\ current_frequency' = tone.current_frequency
                        /\ is_playing' = tone.is_playing
                        /\ stream' = tone.stream
                        /\ phase' = tone.phase
                        /\ streams_open' = streams_open + tone.opened
                        /\ run' = IF tone.opened > 0 THEN NewRun ELSE run
                        /\ prev' = IF tone.opened > 0 THEN Nothing ELSE prev
                        /\ slast' = SoundCall("soundscape", snd.strength,
                                              Frac(1, 1), is_playing)
                        /\ UNCHANGED <<cb, sc, toneVars>>
                   ELSE UNCHANGED soundVars
                /\ data_buffer' = DequeAppend(data_buffer, curve_data, TIME_BUFFER_SIZE)
                /\ latest_curve' = IF publish THEN curve_data ELSE latest_curve
                /\ pending' = IF publish THEN pending ELSE curve_data
                /\ updates' = [long |-> IF long_done THEN updates.long
                                        ELSE updates.long + 1,
                               fast |-> updates.fast + 1]
                /\ clock' = clock + 1
                /\ arrived' = Append(arrived, curve_data)
                /\ rlast' = [outcome |-> "stored",
                             bad     |-> ParseRaises(line),
                             count   |-> Len(NonEmptyTokens(line)),
                             sound   |-> enable_sound,
                             raised  |-> snd.raised,
                             soundscape_calls |-> IF snd.called THEN 1 ELSE 0,
                             exact   |-> /\ ObjUpdateExactly(long_average_curve, compensated)
                                         /\ ObjUpdateExactly(fast_average_curve, compensated)]
    /\ UNCHANGED <<enable_sound, last, calls, nlast, peak_call>>
    /\ UNCHANGED <<filterVars, voiceVars>>

\* one pass of the while loop of _read_loop with a line waiting
read_loop_line(line) ==
    /\ ReadLoopPass(line, TRUE, FALSE)
    /\ UNCHANGED <<threadVars, clearing, held, updating>>

clear_buffer ==
    /\ data_buffer' = <<>>
    /\ latest_curve' = NoCurve
    /\ long_average_curve' = ObjReset(long_average_curve)
    /\ fast_average_curve' = ObjReset(fast_average_curve)
    /\ arrived' = <<>>
    /\ rlast' = NoPass
    /\ updates' = NoUpdates
    /\ UNCHANGED <<enable_sound, clock>>
    /\ UNCHANGED <<threadVars, pending, clearing, held, updating>>
    /\ UNCHANGED <<peakVars, filterVars, soundVars, voiceVars>>

set_sound_enabled(enabled) ==
    /\ enable_sound' = enabled
    /\ LET s == IF ~enabled THEN StopTone(is_playing, stream, phase)
                ELSE [is_playing |-> is_playing, stream |-> stream, phase |-> phase,
                      closed |-> 0]
       IN  /\ is_playing' = s.is_playing
           /\ stream' = s.stream
           /\ phase' = s.phase
           /\ streams_open' = streams_open - s.closed
    /\ rlast' = NoPass
    /\ UNCHANGED <<current_frequency, current_volume, cb, sc, prev, run, slast,
                   toneVars>>
    /\ UNCHANGED <<data_buffer, latest_curve, long_average_curve,
                   fast_average_curve, clock, arrived>>
    /\ UNCHANGED <<threadVars, readerVars>>
    /\ UNCHANGED <<peakVars, filterVars, voiceVars>>

NextStore ==
    \/ \E line \in StoreLines : read_loop_line(line)
    \/ clear_buffer

NextLoop ==
    \/ \E line \in Lines : clock < MaxLines /\ read_loop_line(line)
    \/ clear_buffer
    \/ \E enabled \in BOOLEAN : set_sound_enabled(enabled)

(***************************************************************************)
(* The loop thread and the callers of init, start_reading and stop_reading  *)
(***************************************************************************)
MaxThreads == 2

MaxPasses == 2

\* a well formed line, one a value short and one with a token that is no
\* number
ThreadLines ==
    {FlatLine(250000, CURVE_SAMPLE_SIZE), FlatLine(0, CURVE_SAMPLE_SIZE - 1),
     FlatLine(0, CURVE_SAMPLE_SIZE - 1) \o <<BadTok>>}

\* what in_waiting and readline raise on a failing port
ReadErrors == {"SerialException", "OSError"}

\* lines 178-183: the exceptions the handlers of the outer try catch
Caught_serial_only(exc) == exc = "SerialException"

Caught(exc) == exc = "SerialException" \/ exc \in {"OSError", "TypeError", "ValueError"}

\* line 115: while is_reading
LoopContinues_forever(flag) == TRUE

LoopContinues(flag) == flag

Threads == at_while + in_pass

init(ok) ==
    /\ serial_port' = IF ok THEN OpenPort ELSE serial_port
    /\ UNCHANGED <<is_reading, read_thread, at_while, in_pass, starters, joining>>
    /\ UNCHANGED <<data_buffer, latest_curve, long_average_curve, fast_average_curve,
                   enable_sound, clock, arrived, rlast, readerVars>>
    /\ UNCHANGED <<peakVars, filterVars, soundVars, voiceVars>>

\* start_reading, lines 88-94: both checks passed
start_reading_checks ==
    /\ Threads + starters < MaxThreads
    /\ ~is_reading
    /\ serial_port = OpenPort
    /\ starters' = starters + 1
    /\ UNCHANGED <<serial_port, is_reading, read_thread, at_while, in_pass, joining>>
    /\ UNCHANGED <<data_buffer, latest_curve, long_average_curve, fast_average_curve,
                   enable_sound, clock, arrived, rlast, readerVars>>
    /\ UNCHANGED <<peakVars, filterVars, soundVars, voiceVars>>

\* start_reading, lines 96-98: the flag is set and the thread started
start_reading_starts ==
    /\ starters > 0
    /\ starters' = starters - 1
    /\ is_reading' = TRUE
    /\ read_thread' = TRUE
    /\ at_while' = at_while + 1
    /\ UNCHANGED <<serial_port, in_pass, joining>>
    /\ UNCHANGED <<data_buffer, latest_curve, long_average_curve, fast_average_curve,
                   enable_sound, clock, arrived, rlast, readerVars>>
    /\ UNCHANGED <<peakVars, filterVars, soundVars, voiceVars>>

\* stop_reading up to the join
stop_reading ==
    /\ is_reading' = FALSE
    /\ joining' = read_thread
    /\ UNCHANGED <<serial_port, read_thread, at_while, in_pass, starters>>
    /\ UNCHANGED <<data_buffer, latest_curve, long_average_curve, fast_average_curve,
                   enable_sound, clock, arrived, rlast, readerVars>>
    /\ UNCHANGED <<peakVars, filterVars, soundVars, voiceVars>>

\* read_thread.join(timeout=2) returns: the thread ended or the time is up
join_returns(timed_out) ==
    /\ joining
    /\ timed_out \/ Threads = 0
    /\ joining' = FALSE
    /\ UNCHANGED <<serial_port, is_reading, read_thread, at_while, in_pass, starters>>
    /\ UNCHANGED <<data_buffer, latest_curve, long_average_curve, fast_average_curve,
                   enable_sound, clock, arrived, rlast, readerVars>>
    /\ UNCHANGED <<peakVars, filterVars, soundVars, voiceVars>>

\* line 115: the test of the while holds and the thread enters the body
loop_test ==
    /\ at_while > 0
    /\ LoopContinues(is_reading)
    /\ at_while' = at_while - 1
    /\ in_pass' = in_pass + 1
    /\ UNCHANGED <<serial_port, is_reading, read_thread, starters, joining>>
    /\ UNCHANGED <<data_buffer, latest_curve, long_average_curve, fast_average_curve,
                   enable_sound, clock, arrived, rlast, readerVars>>
    /\ UNCHANGED <<peakVars, filterVars, soundVars, voiceVars>>

\* line 115: the test of the while fails and the thread ends
loop_exit ==
    /\ at_while > 0
    /\ ~LoopContinues(is_reading)
    /\ at_while' = at_while - 1
    /\ UNCHANGED <<serial_port, is_reading, read_thread, in_pass, starters, joining>>
    /\ UNCHANGED <<data_buffer, latest_curve, long_average_curve, fast_average_curve,
                   enable_sound, clock, arrived, rlast, readerVars>>
    /\ UNCHANGED <<peakVars, filterVars, soundVars, voiceVars>>

\* lines 116-176: a pass of a thread with a line waiting
loop_pass(line) ==
    /\ in_pass > 0
    /\ clock < MaxPasses
    /\ ReadLoopPass(line, TRUE, FALSE)
    /\ in_pass' = in_pass - 1
    /\ at_while' = at_while + 1
    /\ UNCHANGED <<serial_port, is_reading, read_thread, starters, joining>>
    /\ UNCHANGED <<clearing, held, updating>>

\* line 117: a pass of a thread with nothing waiting
loop_idle ==
    /\ in_pass > 0
    /\ in_pass' = in_pass - 1
    /\ at_while' = at_while + 1
    /\ rlast' = [NoPass EXCEPT !.outcome = "idle"]
    /\ UNCHANGED <<serial_port, is_reading, read_thread, starters, joining>>
    /\ UNCHANGED <<data_buffer, latest_curve, long_average_curve, fast_average_curve,
                   enable_sound, clock, arrived, readerVars>>
    /\ UNCHANGED <<peakVars, filterVars, soundVars, voiceVars>>

\* lines 117-119 and 178-183: in_waiting or readline raises; a caught
\* exception is printed and the loop goes on after the sleep
loop_error(exc) ==
    /\ in_pass > 0
    /\ in_pass' = in_pass - 1
    /\ at_while' = IF Caught(exc) THEN at_while + 1 ELSE at_while
    /\ rlast' = [NoPass EXCEPT !.outcome = "read_error", !.raised = exc]
    /\ UNCHANGED <<serial_port, is_reading, read_thread, starters, joining>>
    /\ UNCHANGED <<data_buffer, latest_curve, long_average_curve, fast_average_curve,
                   enable_sound, clock, arrived, readerVars>>
    /\ UNCHANGED <<peakVars, filterVars, soundVars, voiceVars>>

\* the body of the loop comes to its end
LoopBodyEnds ==
    \/ \E line \in ThreadLines : loop_pass(line)
    \/ loop_idle
    \/ \E exc \in ReadErrors : loop_error(exc)

NextThreads ==
    \/ \E ok \in BOOLEAN : init(ok)
    \/ start_reading_checks
    \/ start_reading_starts
    \/ stop_reading
    \/ \E timed_out \in BOOLEAN : join_returns(timed_out)
    \/ loop_test
    \/ loop_exit
    \/ \E line \in ThreadLines : loop_pass(line)
    \/ loop_idle
    \/ \E exc \in ReadErrors : loop_error(exc)

(***************************************************************************)
(* A reader on its own thread, the loop and clear_buffer step by step       *)
(***************************************************************************)
\* the lines the loop reads while a reader looks on
ReaderLines == {FlatLine(v, CURVE_SAMPLE_SIZE) : v \in LoopVals}

\* the elements the reader writes
WriteItems == {1}

\* lines 117-168 of a pass over a well formed line: the curve is appended
loop_append(line) ==
    /\ pending = NoCurve
    /\ clock < MaxPasses
    /\ Accepted(line)
    /\ ReadLoopPass(line, FALSE, FALSE)
    /\ UNCHANGED <<threadVars, clearing, held, updating>>

\* line 169: latest_curve = curve_data
loop_publish ==
    /\ pending # NoCurve
    /\ latest_curve' = pending
    /\ pending' = NoCurve
    /\ UNCHANGED <<data_buffer, long_average_curve, fast_average_curve, enable_sound,
                   clock, arrived, rlast, threadVars, clearing, held, updating,
                   updates>>
    /\ UNCHANGED <<peakVars, filterVars, soundVars, voiceVars>>

\* clear_buffer, line 204: data_buffer.clear()
clear_buffer_data ==
    /\ ~clearing
    /\ clearing' = TRUE
    /\ data_buffer' = <<>>
    /\ arrived' = <<>>
    /\ rlast' = NoPass
    /\ UNCHANGED <<latest_curve, long_average_curve, fast_average_curve, enable_sound,
                   clock, threadVars, pending, held, updating, updates>>
    /\ UNCHANGED <<peakVars, filterVars, soundVars, voiceVars>>

\* clear_buffer, lines 205-208: latest_curve = None and the resets
clear_buffer_rest ==
    /\ clearing
    /\ clearing' = FALSE
    /\ latest_curve' = NoCurve
    /\ long_average_curve' = ObjReset(long_average_curve)
    /\ fast_average_curve' = ObjReset(fast_average_curve)
    /\ updates' = NoUpdates
    /\ UNCHANGED <<data_buffer, enable_sound, clock, arrived, rlast, threadVars,
                   pending, held, updating>>
    /\ UNCHANGED <<peakVars, filterVars, soundVars, voiceVars>>

\* get_latest(): the dict latest_curve refers to (nothing to hold when None)
get_latest ==
    /\ latest_curve # NoCurve
    /\ held' = [kind |-> "latest", curves |-> <<latest_curve>>, avg |-> <<>>]
    /\ UNCHANGED <<data_buffer, latest_curve, long_average_curve, fast_average_curve,
                   enable_sound, clock, arrived, rlast, threadVars, pending, clearing,
                   updating, updates>>
    /\ UNCHANGED <<peakVars, filterVars, soundVars, voiceVars>>

\* get_buffer(): a new list of the dicts in data_buffer
get_buffer ==
    /\ held' = [kind |-> "buffer", curves |-> data_buffer, avg |-> <<>>]
    /\ UNCHANGED <<data_buffer, latest_curve, long_average_curve, fast_average_curve,
                   enable_sound, clock, arrived, rlast, threadVars, pending, clearing,
                   updating, updates>>
    /\ UNCHANGED <<peakVars, filterVars, soundVars, voiceVars>>

\* get_average(): copies of the two averages
get_average_curves ==
    /\ held' = [kind |-> "average", curves |-> <<>>,
                avg |-> <<ObjAverage(long_average_curve), ObjAverage(fast_average_curve)>>]
    /\ UNCHANGED <<data_buffer, latest_curve, long_average_curve, fast_average_curve,
                   enable_sound, clock, arrived, rlast, threadVars, pending, clearing,
                   updating, updates>>
    /\ UNCHANGED <<peakVars, filterVars, soundVars, voiceVars>>

\* the dict c after values[i] = v is written through a reference to the dict
\* created at time ts: one dict is created per timestamp
Written(c, ts, i, v) ==
    IF c.timestamp = ts /\ c # NoCurve THEN [c EXCEPT !.values[i] = v] ELSE c

\* the reader writes element i of what it holds: of the values of its k-th
\* curve, or of its k-th average
reader_writes(k, i) ==
    /\ held.kind # "none"
    /\ IF held.kind = "average"
       THEN /\ k \in 1..Len(held.avg)
            /\ held' = [held EXCEPT !.avg[k][i] = MutVal * VScale]
            /\ UNCHANGED <<data_buffer, latest_curve, pending, arrived>>
       ELSE /\ k \in 1..Len(held.curves)
            /\ LET ts == held.curves[k].timestamp
                   v  == MutVal * VScale
               IN  /\ held' = [held EXCEPT !.curves[k].values[i] = v]
                   /\ data_buffer' = [j \in 1..Len(data_buffer) |->
                                         Written(data_buffer[j], ts, i, v)]
                   /\ latest_curve' = Written(latest_curve, ts, i, v)
                   /\ pending' = Written(pending, ts, i, v)
                   /\ arrived' = [j \in 1..Len(arrived) |->
                                     Written(arrived[j], ts, i, v)]
    /\ UNCHANGED <<long_average_curve, fast_average_curve, enable_sound, clock, rlast,
                   threadVars, clearing, updating, updates>>
    /\ UNCHANGED <<peakVars, filterVars, soundVars, voiceVars>>

\* lines 117-135 of a pass over a well formed line: the baseline filter is
\* updated
loop_updates_baseline(line) ==
    /\ updating = <<>>
    /\ clock < MaxLines
    /\ Accepted(line)
    /\ LET compensated == [v |-> ParsedValues(line), dtype |-> "float64"]
           long1       == ObjUpdate(long_average_curve, compensated)
       IN  long_average_curve' = [f |-> long1.f, h |-> long1.h]
    /\ updates' = [updates EXCEPT !.long = @ + 1]
    /\ updating' = line
    /\ UNCHANGED <<data_buffer, latest_curve, fast_average_curve, enable_sound, clock,
                   arrived, rlast, threadVars, pending, clearing, held>>
    /\ UNCHANGED <<peakVars, filterVars, soundVars, voiceVars>>

\* lines 136-169: the rest of that pass
loop_finishes ==
    /\ updating # <<>>
    /\ ReadLoopPass(updating, TRUE, TRUE)
    /\ updating' = <<>>
    /\ UNCHANGED <<threadVars, clearing, held>>

NextClear ==
    \/ \E line \in ReaderLines : loop_updates_baseline(line)
    \/ loop_finishes
    \/ clear_buffer
    \/ \E enabled \in BOOLEAN : set_sound_enabled(enabled)

NextReaders ==
    \/ \E line \in ReaderLines : loop_append(line)
    \/ loop_publish
    \/ clear_buffer_data
    \/ clear_buffer_rest
    \/ get_latest
    \/ get_buffer
    \/ get_average_curves
    \/ \E k \in 1..MaxPasses, i \in WriteItems : reader_writes(k, i)

(***************************************************************************)
(* The oscillator and its callers                                          *)
(*                                                                         *)
(* callback is one call of the audio callback taken whole;                 *)
(* callback_generate and callback_advance are its two statements (lines 77  *)
(* and 83) for the runs in which another thread writes between them.        *)
(* soundscape is one call taken whole; soundscape_volume (lines 138-139)    *)
(* and soundscape_finish (lines 145-152) are its two halves.  stream.stop() *)
(* returns once the callback in progress has finished, so stop_tone is      *)
(* taken when no block is in progress.                                     *)
(***************************************************************************)
MaxBlocks == 2

MaxStreams == 2

MaxStoppers == 2

Frequencies == {880}

Volumes == {Vol(Frac(-1, 2)), Vol(Frac(3, 2))}

Strengths == {Frac(-100, 1), Frac(50, 1), Frac(150, 1)}

ShapeRatios == {Frac(1, 1), Frac(2, 1)}

FrameCounts == {256, 512}

\* the inputs of the runs with two threads
RaceStrengths == {Frac(50, 1)}

RaceVolumes == {Vol(Frac(3, 2))}

RaceFrameCounts == {512}

\* run after a block of frames samples computed at frequency f and advanced
\* at frequency g
RunAfterBlock(r, f, g, frames) ==
    [samples   |-> r.samples + frames,
     blocks    |-> r.blocks + 1,
     frequency |-> IF r.blocks = 0 THEN f ELSE r.frequency,
     constant  |-> r.constant /\ f = g /\ (r.blocks = 0 \/ f = r.frequency)]

\* the block b completed, its phase advanced at frequency g
Completed(b, g) ==
    [op |-> "block", volume |-> b.volume, frequency |-> b.frequency,
     phase0 |-> b.phase0, frames |-> b.frames, advanced_at |-> g]

set_frequency(freq) ==
    /\ current_frequency' = freq
    /\ slast' = SoundCall("set_frequency", Frac(freq, 1), Frac(0, 1), is_playing)
    /\ UNCHANGED <<is_playing, stream, phase, current_volume, streams_open,
                   cb, sc, prev, run>>
    /\ UNCHANGED toneVars
    /\ UNCHANGED <<peakVars, filterVars, storeVars, voiceVars>>

set_volume(vol) ==
    /\ current_volume' = SetVolume(vol)
    /\ slast' = SoundCall("set_volume", Frac(vol, VolScale), Frac(0, 1), is_playing)
    /\ UNCHANGED <<is_playing, stream, phase, current_frequency, streams_open,
                   cb, sc, prev, run>>
    /\ UNCHANGED toneVars
    /\ UNCHANGED <<peakVars, filterVars, storeVars, voiceVars>>

start_tone ==
    /\ LET t == StartTone(is_playing, stream, phase)
       IN  /\ is_playing' = t.is_playing
           /\ stream' = t.stream
           /\ phase' = t.phase
           /\ streams_open' = streams_open + t.opened
           /\ run' = IF t.opened > 0 THEN NewRun ELSE run
           /\ prev' = IF t.opened > 0 THEN Nothing ELSE prev
    /\ slast' = SoundCall("start_tone", Frac(0, 1), Frac(0, 1), is_playing)
    /\ UNCHANGED <<current_frequency, current_volume, cb, sc>>
    /\ UNCHANGED toneVars
    /\ UNCHANGED <<peakVars, filterVars, storeVars, voiceVars>>

stop_tone ==
    /\ cb = Nothing
    /\ LET t == StopTone(is_playing, stream, phase)
       IN  /\ is_playing' = t.is_playing
           /\ stream' = t.stream
           /\ phase' = t.phase
           /\ streams_open' = streams_open - t.closed
           /\ run' = IF is_playing THEN NewRun ELSE run
           /\ prev' = IF is_playing THEN Nothing ELSE prev
    /\ slast' = SoundCall("stop_tone", Frac(0, 1), Frac(0, 1), is_playing)
    /\ UNCHANGED <<current_frequency, current_volume, cb, sc>>
    /\ UNCHANGED toneVars
    /\ UNCHANGED <<peakVars, filterVars, storeVars, voiceVars>>

soundscape(signal_strength, signal_shape_ratio) ==
    /\ sc = Nothing
    /\ LET t == Soundscape(signal_strength, is_playing, stream, phase)
       IN  /\ current_volume' = t.current_volume
           /\ current_frequency' = t.current_frequency
           /\ is_playing' = t.is_playing
           /\ stream' = t.stream
           /\ phase' = t.phase
           /\ streams_open' = streams_open + t.opened
           /\ run' = IF t.opened > 0 THEN NewRun ELSE run
           /\ prev' = IF t.opened > 0 THEN Nothing ELSE prev
    /\ slast' = SoundCall("soundscape", signal_strength, signal_shape_ratio, is_playing)
    /\ UNCHANGED <<cb, sc>>
    /\ UNCHANGED toneVars
    /\ UNCHANGED <<peakVars, filterVars, storeVars, voiceVars>>

soundscape_volume(signal_strength, signal_shape_ratio) ==
    /\ sc = Nothing
    /\ current_volume' = SoundscapeVolume(signal_strength)
    /\ sc' = SoundCall("soundscape", signal_strength, signal_shape_ratio, is_playing)
    /\ UNCHANGED <<is_playing, stream, phase, current_frequency, streams_open,
                   cb, prev, run, slast>>
    /\ UNCHANGED toneVars
    /\ UNCHANGED <<peakVars, filterVars, storeVars, voiceVars>>

soundscape_finish ==
    /\ sc # Nothing
    /\ current_frequency' = SoundscapeFrequency(sc.arg)
    /\ LET t == IF ~is_playing THEN StartTone(is_playing, stream, phase)
                ELSE [is_playing |-> is_playing, stream |-> stream,
                      phase |-> phase, opened |-> 0]
       IN  /\ is_playing' = t.is_playing
           /\ stream' = t.stream
           /\ phase' = t.phase
           /\ streams_open' = streams_open + t.opened
           /\ run' = IF t.opened > 0 THEN NewRun ELSE run
           /\ prev' = IF t.opened > 0 THEN Nothing ELSE prev
    /\ slast' = [sc EXCEPT !.was_playing = is_playing]
    /\ sc' = Nothing
    /\ UNCHANGED <<current_volume, cb>>
    /\ UNCHANGED toneVars
    /\ UNCHANGED <<peakVars, filterVars, storeVars, voiceVars>>

callback(frames) ==
    /\ stream = OpenStream
    /\ cb = Nothing
    /\ run.blocks < MaxBlocks
    /\ prev' = Completed(Block(current_volume, current_frequency, phase, frames),
                         current_frequency)
    /\ phase' = PhaseAdvance(phase, current_frequency, frames)
    /\ run' = RunAfterBlock(run, current_frequency, current_frequency, frames)
    /\ slast' = SoundCall("callback", Frac(frames, 1), Frac(0, 1), is_playing)
    /\ UNCHANGED <<is_playing, stream, current_frequency, current_volume,
                   streams_open, cb, sc>>
    /\ UNCHANGED toneVars
    /\ UNCHANGED <<peakVars, filterVars, storeVars, voiceVars>>

callback_generate(frames) ==
    /\ stream = OpenStream
    /\ cb = Nothing
    /\ run.blocks < MaxBlocks
    /\ cb' = Block(current_volume, current_frequency, phase, frames)
    /\ UNCHANGED <<is_playing, stream, phase, current_frequency, current_volume,
                   streams_open, sc, prev, run, slast>>
    /\ UNCHANGED toneVars
    /\ UNCHANGED <<peakVars, filterVars, storeVars, voiceVars>>

callback_advance ==
    /\ cb # Nothing
    /\ phase' = PhaseAdvance(phase, current_frequency, cb.frames)
    /\ prev' = Completed(cb, current_frequency)
    /\ run' = RunAfterBlock(run, cb.frequency, current_frequency, cb.frames)
    /\ cb' = Nothing
    /\ slast' = SoundCall("callback", Frac(cb.frames, 1), Frac(0, 1), is_playing)
    /\ UNCHANGED <<is_playing, stream, current_frequency, current_volume,
                   streams_open, sc>>
    /\ UNCHANGED toneVars
    /\ UNCHANGED <<peakVars, filterVars, storeVars, voiceVars>>

\* start_tone, lines 60-64: the check passes, is_playing and phase are set
start_tone_sets ==
    /\ ~is_playing
    /\ starting + streams_open < MaxStreams
    /\ is_playing' = TRUE
    /\ phase' = 0
    /\ starting' = starting + 1
    /\ UNCHANGED <<stream, current_frequency, current_volume, streams_open, cb, sc,
                   prev, run, slast, stopping>>
    /\ UNCHANGED <<peakVars, filterVars, storeVars, voiceVars>>

\* start_tone, lines 85-91: the stream is created, assigned and started
start_tone_opens ==
    /\ starting > 0
    /\ starting' = starting - 1
    /\ stream' = OpenStream
    /\ streams_open' = streams_open + 1
    /\ run' = NewRun
    /\ prev' = Nothing
    /\ UNCHANGED <<is_playing, phase, current_frequency, current_volume, cb, sc,
                   slast, stopping>>
    /\ UNCHANGED <<peakVars, filterVars, storeVars, voiceVars>>

\* stop_tone, lines 99-102: the check passes, is_playing is cleared
stop_tone_clears ==
    /\ is_playing
    /\ stopping < MaxStoppers
    /\ is_playing' = FALSE
    /\ stopping' = stopping + 1
    /\ UNCHANGED <<stream, phase, current_frequency, current_volume, streams_open,
                   cb, sc, prev, run, slast, starting>>
    /\ UNCHANGED <<peakVars, filterVars, storeVars, voiceVars>>

\* stop_tone, lines 104-109: the stream the global refers to, if any, is
\* stopped, closed and forgotten; phase is reset
stop_tone_closes ==
    /\ stopping > 0
    /\ cb = Nothing
    /\ stopping' = stopping - 1
    /\ stream' = NoStream
    /\ streams_open' = IF stream # NoStream THEN streams_open - 1 ELSE streams_open
    /\ phase' = 0
    /\ run' = IF stream # NoStream THEN NewRun ELSE run
    /\ prev' = IF stream # NoStream THEN Nothing ELSE prev
    /\ UNCHANGED <<is_playing, current_frequency, current_volume, cb, sc, slast,
                   starting>>
    /\ UNCHANGED <<peakVars, filterVars, storeVars, voiceVars>>

\* soundscape, lines 131-152, up to the point where its start_tone has set
\* is_playing
soundscape_sets(signal_strength) ==
    /\ current_volume' = SoundscapeVolume(signal_strength)
    /\ current_frequency' = SoundscapeFrequency(signal_strength)
    /\ IF ~is_playing
       THEN /\ starting + streams_open < MaxStreams
            /\ is_playing' = TRUE
            /\ phase' = 0
            /\ starting' = starting + 1
       ELSE UNCHANGED <<is_playing, phase, starting>>
    /\ UNCHANGED <<stream, streams_open, cb, sc, prev, run, slast, stopping>>
    /\ UNCHANGED <<peakVars, filterVars, storeVars, voiceVars>>

NextTone ==
    \/ start_tone_sets
    \/ start_tone_opens
    \/ stop_tone_clears
    \/ stop_tone_closes
    \/ \E s \in Strengths : soundscape_sets(s)
    \/ \E frames \in FrameCounts : callback(frames)

NextSound ==
    \/ \E freq \in Frequencies : set_frequency(freq)
    \/ \E vol \in Volumes : set_volume(vol)
    \/ start_tone
    \/ stop_tone
    \/ \E s \in Strengths, r \in ShapeRatios : soundscape(s, r)
    \/ \E frames \in FrameCounts : callback(frames)

NextRace ==
    \/ \E freq \in Frequencies : set_frequency(freq)
    \/ \E vol \in RaceVolumes : set_volume(vol)
    \/ \E s \in RaceStrengths : soundscape_volume(s, Frac(1, 1))
    \/ soundscape_finish
    \/ \E frames \in RaceFrameCounts : callback_generate(frames)
    \/ callback_advance

(***************************************************************************)
(* voice.py and wav_player.py: a queue, a running flag and worker threads  *)
(* VoiceEngine and WavPlayer keep the same three fields and run the same   *)
(* worker loop, start and stop; they differ in what say and say_number     *)
(* accept.  An item of the queue is [none, text, n, stops]: none marks the *)
(* None that stop puts, text is what was put, and n (the number of the     *)
(* accepted call) and stops (the stop calls made before it) are kept for   *)
(* the claims only, as is, for an item being played, the number of stop    *)
(* calls that had returned when the worker took it (at).                   *)
(***************************************************************************)
MaxSays == 3

MaxStops == 2

MaxWorkers == 2

\* voice.py line 93, wav_player.py line 93: the None put by stop
NoneItem == [none |-> TRUE, text |-> <<>>, n |-> 0, stops |-> 0]

NoSay == [op |-> "none", ret |-> FALSE]

\* the texts given to say: "" is false in the test of line 104
VoiceTexts == {<<>>, <<"g", "o">>}

\* the numbers given to say_number
WavNumbers == {-1, 7, 42, 100}

\* str(number)
PyStr(number) ==
    IF number < 0 THEN <<"-">> \o DecimalDigits(-number)
    ELSE DecimalDigits(number)

\* str.zfill(width): zeros after a leading sign, nothing cut
ZFill(s, width) ==
    IF s # <<>> /\ s[1] \in {"+", "-"}
    THEN <<s[1]>> \o ZeroPad(Tail(s), width - 1)
    ELSE ZeroPad(s, width)

\* str.isdigit()
IsDigitString(s) ==
    /\ s # <<>>
    /\ \A i \in 1..Len(s) : \E k \in 1..10 : DigitChars[k] = s[i]

\* wav_player.py lines 103-105: the string say_number queues, or <<>> when
\* it returns False
NumStr(number) ==
    LET num_str == ZFill(PyStr(number), 2)
    IN  IF Len(num_str) # 2 \/ ~IsDigitString(num_str) THEN <<>> ELSE num_str

\* the calls of stop that have returned
StopsReturned == IF stop_joining THEN stops - 1 ELSE stops

\* the worker threads that have not returned
Workers == at_test + at_get + Cardinality(speaking)

InitVoice ==
    /\ running = FALSE
    /\ queue = <<>>
    /\ at_test = 0
    /\ at_get = 0
    /\ speaking = {}
    /\ stop_joining = FALSE
    /\ spoken = <<>>
    /\ said = 0
    /\ stops = 0
    /\ vlast = NoSay

\* start(): a thread is created only when the flag is clear
engine_start ==
    /\ ~stop_joining
    /\ IF ~running
       THEN /\ Workers < MaxWorkers
            /\ running' = TRUE
            /\ at_test' = at_test + 1
       ELSE UNCHANGED <<running, at_test>>
    /\ vlast' = [op |-> "start", ret |-> ~running]
    /\ UNCHANGED <<queue, at_get, speaking, stop_joining, spoken, said, stops>>
    /\ UNCHANGED <<peakVars, filterVars, storeVars, soundVars>>

\* stop() up to its join: the flag is cleared, None is put and the caller
\* waits for the thread
engine_stop ==
    /\ ~stop_joining
    /\ IF running
       THEN /\ stops < MaxStops
            /\ running' = FALSE
            /\ queue' = Append(queue, NoneItem)
            /\ stop_joining' = TRUE
            /\ stops' = stops + 1
       ELSE UNCHANGED <<running, queue, stop_joining, stops>>
    /\ vlast' = [op |-> "stop", ret |-> running]
    /\ UNCHANGED <<at_test, at_get, speaking, spoken, said>>
    /\ UNCHANGED <<peakVars, filterVars, storeVars, soundVars>>

\* join(timeout=2.0) returns: the thread has ended, or two seconds have
\* passed while it is still in espeak or aplay
engine_join_returns(timed_out) ==
    /\ stop_joining
    /\ IF timed_out THEN speaking # {} ELSE Workers = 0
    /\ stop_joining' = FALSE
    /\ vlast' = [op |-> "join", ret |-> ~timed_out]
    /\ UNCHANGED <<running, queue, at_test, at_get, speaking, spoken, said, stops>>
    /\ UNCHANGED <<peakVars, filterVars, storeVars, soundVars>>

\* what say and say_number do with an accepted text (<<>>: not accepted)
Say(op, text) ==
    /\ ~stop_joining
    /\ said < MaxSays
    /\ IF running /\ text # <<>>
       THEN /\ queue' = Append(queue, [none |-> FALSE, text |-> text,
                                       n |-> said + 1, stops |-> stops])
            /\ said' = said + 1
            /\ vlast' = [op |-> op, ret |-> TRUE]
       ELSE /\ vlast' = [op |-> op, ret |-> FALSE]
            /\ UNCHANGED <<queue, said>>
    /\ UNCHANGED <<running, at_test, at_get, speaking, stop_joining, spoken, stops>>
    /\ UNCHANGED <<peakVars, filterVars, storeVars, soundVars>>

\* VoiceEngine.say(text)
say(text) == Say("say", text)

\* WavPlayer.say_number(number)
say_number(number) == Say("say_number", NumStr(number))

\* _worker: the test of the while
worker_test ==
    /\ at_test > 0
    /\ at_test' = at_test - 1
    /\ at_get' = IF running THEN at_get + 1 ELSE at_get
    /\ UNCHANGED <<running, queue, speaking, stop_joining, spoken, said, stops,
                   vlast>>
    /\ UNCHANGED <<peakVars, filterVars, storeVars, soundVars>>

\* _worker: queue.get returns an item; None ends the thread
worker_get ==
    /\ at_get > 0
    /\ queue # <<>>
    /\ queue' = Tail(queue)
    /\ at_get' = at_get - 1
    /\ speaking' = IF Head(queue).none THEN speaking
                   ELSE speaking \cup {[item |-> Head(queue),
                                        at   |-> StopsReturned]}
    /\ UNCHANGED <<running, at_test, stop_joining, spoken, said, stops, vlast>>
    /\ UNCHANGED <<peakVars, filterVars, storeVars, soundVars>>

\* _worker: queue.get raises Empty after half a second
worker_empty ==
    /\ at_get > 0
    /\ queue = <<>>
    /\ at_get' = at_get - 1
    /\ at_test' = at_test + 1
    /\ vlast' = [op |-> "Empty", ret |-> FALSE]
    /\ UNCHANGED <<running, queue, speaking, stop_joining, spoken, said, stops>>
    /\ UNCHANGED <<peakVars, filterVars, storeVars, soundVars>>

\* _worker: _speak_direct or _say_number returns and the loop goes round
worker_speaks(n) ==
    /\ \E s \in speaking : s.item.n = n
    /\ LET s == CHOOSE s \in speaking : s.item.n = n
       IN  /\ speaking' = speaking \ {s}
           /\ spoken' = Append(spoken, s)
    /\ at_test' = at_test + 1
    /\ UNCHANGED <<running, queue, at_get, stop_joining, said, stops, vlast>>
    /\ UNCHANGED <<peakVars, filterVars, storeVars, soundVars>>

NextVoice ==
    \/ engine_start
    \/ engine_stop
    \/ \E timed_out \in BOOLEAN : engine_join_returns(timed_out)
    \/ \E text \in VoiceTexts : say(text)
    \/ worker_test
    \/ worker_get
    \/ worker_empty
    \/ \E n \in 1..MaxSays : worker_speaks(n)

NextWav ==
    \/ engine_start
    \/ engine_stop
    \/ \E timed_out \in BOOLEAN : engine_join_returns(timed_out)
    \/ \E number \in WavNumbers : say_number(number)
    \/ worker_test
    \/ worker_get
    \/ worker_empty
    \/ \E n \in 1..MaxSays : worker_speaks(n)

\* the program after import, with a filter of the default rates under test
Init == InitPeak /\ InitFilterFixed /\ InitStore /\ InitSound /\ InitVoice

\* the same with the filter under test constructed with any of the rates
InitAnyRates == InitPeak /\ InitFilter /\ InitStore /\ InitSound /\ InitVoice

(***************************************************************************)
(* The specifications                                                      *)
(***************************************************************************)
\* any sequence of extract_signal_features, update_peak_tracker and
\* force_two_digit calls from the initial feature set
SpecPeak == Init /\ [][NextPeak]_vars

\* a filter of any rates whose caller keeps no reference
SpecFilter == InitAnyRates /\ [][NextFilter]_vars

\* a filter whose caller keeps and writes what it passed and got back
SpecAlias == Init /\ [][NextAlias]_vars

\* the acquisition loop storing curves while clear_buffer is called
SpecStore == Init /\ [][NextStore]_vars

\* a few lines of different values, well formed or not, with the sound
\* updates switched on and off
SpecLoop == Init /\ [][NextLoop]_vars

\* calls on the oscillator and audio callbacks, one at a time
SpecSound == Init /\ [][NextSound]_vars

\* the audio callback running while another thread sets frequency and volume
SpecRace == Init /\ [][NextRace]_vars

\* loop threads started and stopped by callers of start_reading and
\* stop_reading; a thread at the test of the while is scheduled again, and a
\* pass comes to its end (the serial read returns within its timeout)
SpecThreads ==
    Init /\ [][NextThreads]_vars /\ WF_vars(loop_exit) /\ WF_vars(LoopBodyEnds)

\* the loop and clear_buffer, each interleaved line by line with the calls
\* and writes of a reader on another thread
SpecReaders == Init /\ [][NextReaders]_vars

\* the loop updating one filter after the other while clear_buffer is called
\* from another thread
SpecClear == Init /\ [][NextClear]_vars

\* start_tone, stop_tone and soundscape called from different threads, each
\* interleaved with the others between its check and its work on the stream
SpecTone == Init /\ [][NextTone]_vars

\* runs of update_peak_tracker calls, one after another, each over freshly
\* extracted features
SpecRuns == Init /\ [][NextRuns]_vars

\* extract_signal_features and normalize_samples applied to the documented
\* examples and to inputs around them
SpecExamples == Init /\ [][NextExamples]_vars

\* calls of start, say and stop on a VoiceEngine, one caller, interleaved
\* with the steps of its worker threads
SpecVoice == Init /\ [][NextVoice]_vars

\* the same on a WavPlayer, with say_number
SpecWav == Init /\ [][NextWav]_vars


(***************************************************************************)
(* Claims about the peak tracker and the two-digit code (SpecPeak)          *)
(***************************************************************************)
TrackerReturned == last.op = "update_peak_tracker"

\* the tracked value current_features[key] of the last call (the call does
\* not write the extracted fields)
TrackedValue == current_features[last.key]

Triggered == TrackerReturned /\ last.ret.kind = "play"

IsDigit(c) == \E k \in 1..10 : DigitChars[k] = c

DigitValue(c) == (CHOOSE k \in 1..10 : DigitChars[k] = c) - 1

IsTwoDigits(s) == Len(s) = 2 /\ IsDigit(s[1]) /\ IsDigit(s[2])

TwoDigitValue(s) == 10 * DigitValue(s[1]) + DigitValue(s[2])

Clamp(x, lo, hi) == Max(lo, Min(hi, x))

\* C1: cumulative_total is never negative when update_peak_tracker returns.
C1_CumulativeNeverNegative ==
    TrackerReturned => current_features.cumulative_total >= 0

\* C2: every call made with the tracked value below zero returns with
\* cumulative_total = 0 and peak = 0, with or without a trigger event.
C2_ResetTogether ==
    (TrackerReturned /\ TrackedValue < 0) =>
        (current_features.cumulative_total = 0 /\ current_features.peak = 0)

\* C3: update_peak_tracker returns a trigger event if and only if the tracked
\* value is below zero and the stored peak it found is greater than 10.
C3_TriggerIff ==
    TrackerReturned =>
        (last.ret.kind = "play" <=>
            (TrackedValue < 0 /\ last.peak > PeakThreshold * FScale))

C3_Witness == Triggered /\ TrackedValue < 0 /\ last.peak > PeakThreshold * FScale

\* C4 (as claimed): the payload is clamp(round(ratio * 100), 0, 99) as two
\* digits, round being a nearest integer of ratio * 100 (either one at a tie).
C4_PayloadRounded ==
    Triggered =>
        /\ IsTwoDigits(last.ret.num)
        /\ LET x  == 100 * last.ratio.n
               d  == last.ratio.d
               fl == x \div d
           IN  \E r \in {fl, fl + 1} :
                  /\ 2 * Abs(x - r * d) <= d
                  /\ TwoDigitValue(last.ret.num) = Clamp(r, 0, 99)

\* C4 (amended): the payload is clamp(int(ratio * 100), 0, 99) as two digits,
\* int being truncation toward zero: the payload q is 0 when ratio * 100 < 1,
\* 99 when ratio * 100 >= 99, and otherwise q <= ratio * 100 < q + 1.
C4_PayloadTruncated ==
    Triggered =>
        /\ IsTwoDigits(last.ret.num)
        /\ LET x == 100 * last.ratio.n
               d == last.ratio.d
               q == TwoDigitValue(last.ret.num)
           IN  IF x < d THEN q = 0
               ELSE IF x >= 99 * d THEN q = 99
               ELSE q * d <= x /\ x < (q + 1) * d

\* a trigger whose ratio * 100 lies in [1, 99) with a fractional part above
\* one half: truncation and rounding differ
C4_Witness ==
    /\ Triggered
    /\ LET x == 100 * last.ratio.n
           d == last.ratio.d
       IN  /\ x >= d
           /\ x < 98 * d
           /\ 2 * (x - (x \div d) * d) > d

\* C5: every trigger payload is a string of exactly two decimal digits, and
\* force_two_digit returns "00" for a value that is not a number.
C5_TwoDigitsAlways ==
    /\ Triggered => IsTwoDigits(last.ret.num)
    /\ (last.op = "force_two_digit" /\ last.arg.kind \in {"text", "none"}) =>
          (last.ret.kind = "str" /\ last.ret.num = <<"0", "0">>)

\* a trigger whose ratio is above 0.99, so that the clamp decides the payload
C5_Witness ==
    /\ Triggered
    /\ last.ratio.n >= last.ratio.d
    /\ last.ret.num = <<"9", "9">>

(***************************************************************************)
(* Claims about AdaptiveMovingAverage (SpecFilter, SpecAlias)               *)
(***************************************************************************)
\* the smoothing steps of the model lose nothing: every division is exact
ArithmeticExact == flast.exact

UpdateReturns == flast'.op = "update"

InUnitInterval(alpha) == 0 <= alpha.n /\ alpha.n <= alpha.d

\* the rate the specification prescribes for element value x against old
PrescribedAlpha(x, old) == IF x < old THEN filt.alpha_fast ELSE filt.alpha_slow

\* C6: for every input of length size, the first update after construction or
\* after reset() returns exactly the input, stores it as the average and sets
\* initialized.
C6_FirstUpdateStoresInput ==
    [][ (UpdateReturns /\ Len(flast'.arg) = filt.size /\ ~filt.initialized) =>
            /\ flast'.raised = ""
            /\ flast'.ret = flast'.arg
            /\ heap'[filt'.average].v = flast'.arg
            /\ filt'.initialized ]_vars

C6_Witness ==
    /\ flast.op = "update"
    /\ flast.raised = ""
    /\ smooth = 0
    /\ filt.initialized
    /\ flast.ret = flast.arg
    /\ \E i \in 1..Len(flast.arg) : flast.arg[i] # 0

C8_SizeMismatchRaises ==
    [][ (UpdateReturns /\ Len(flast'.arg) # filt.size) =>
            /\ flast'.raised = "ValueError"
            /\ filt' = filt
            /\ heap'[filt'.average] = heap[filt.average] ]_vars

C8_Witness ==
    /\ flast.op = "update"
    /\ flast.raised = "ValueError"
    /\ Len(flast.arg) # filt.size
    /\ filt.initialized

\* C9: a caller that writes into the array update or get_average returned, or
\* into the list it passed to update, does not change the filter's average,
\* and get_average changes no filter state.
C9_CallerCannotReachAverage ==
    [][ (flast'.op \in {"caller_writes", "get_average"}) =>
            /\ filt' = filt
            /\ heap'[filt'.average] = heap[filt.average] ]_vars

\* the caller has written into the array it got back, and the average differs
C9_Witness ==
    /\ flast.op = "caller_writes"
    /\ callerOut # 0
    /\ flast.arg = <<callerOut, 1>>
    /\ heap[callerOut].v[1] = VScale * MutVal
    /\ heap[filt.average].v[1] # VScale * MutVal


(***************************************************************************)
(* Claims about the curve store                                            *)
(***************************************************************************)
\* the newest n elements of s, oldest first
Newest(s, n) == SubSeq(s, Len(s) - n + 1, Len(s))

\* C10: the buffer never holds more than 100 curves, and it holds exactly the
\* newest min(k, 100) of the k curves appended since the last clear, in
\* arrival order
C10_BufferKeepsNewest ==
    /\ Len(data_buffer) <= TIME_BUFFER_SIZE
    /\ data_buffer = Newest(arrived, Min(Len(arrived), TIME_BUFFER_SIZE))

\* more than 100 curves have arrived since the last clear and the oldest of
\* them is no longer in the buffer
C10_Witness ==
    /\ Len(arrived) > TIME_BUFFER_SIZE
    /\ Len(data_buffer) = TIME_BUFFER_SIZE
    /\ \A i \in 1..Len(data_buffer) : data_buffer[i] # arrived[1]
    /\ data_buffer[Len(data_buffer)] = arrived[Len(arrived)]


(***************************************************************************)
(* Claims about the acquisition loop (SpecLoop)                            *)
(***************************************************************************)
\* the arithmetic of the filters in the loop loses nothing
LoopArithmeticExact == rlast.exact

\* the strength the loop is to pass on: the first_half_sum just computed
FreshStrength == Frac(current_features.first_half_sum, FScale * VScale)

\* C11: a pass over a line that has a token that is not a number, or whose
\* number of non-empty tokens differs from 25, changes neither filter, nor
\* data_buffer, nor latest_curve, nor the feature set.
C11_RejectedLineChangesNothing ==
    [][ (rlast'.outcome # "none"
            /\ (rlast'.bad \/ rlast'.count # CURVE_SAMPLE_SIZE)) =>
            UNCHANGED <<long_average_curve, fast_average_curve, data_buffer,
                        latest_curve, current_features>> ]_vars

\* a line with a wrong number of values was dropped after the filters had
\* moved apart and curves had been stored
C11_Witness ==
    /\ rlast.outcome = "wrong_count"
    /\ rlast.count > CURVE_SAMPLE_SIZE
    /\ long_average_curve.f.initialized
    /\ fast_average_curve.f.initialized
    /\ ObjAverage(long_average_curve) # ObjAverage(fast_average_curve)
    /\ Len(data_buffer) >= 2
    /\ latest_curve # NoCurve

\* C12: for every well formed line processed while enable_sound is true the
\* loop extracts the features and then calls soundscape exactly once with
\* strength equal to the first_half_sum just computed, so that frequency and
\* volume are those of that line.
C12_SoundscapeCalledPerLine ==
    (rlast.outcome = "stored" /\ rlast.sound) =>
        /\ rlast.soundscape_calls = 1
        /\ slast.op = "soundscape"
        /\ slast.arg = FreshStrength
        /\ current_frequency = SoundscapeFrequency(FreshStrength)
        /\ current_volume = SoundscapeVolume(FreshStrength)


(***************************************************************************)
(* Claims about the oscillator (SpecSound, SpecRace)                        *)
(***************************************************************************)
\* the arithmetic of soundscape loses nothing
SoundArithmeticExact == slast.op = "soundscape" => SoundscapeExactly(slast.arg)

\* the step is one whole audio callback
CallbackReturns == slast'.op = "callback" /\ run'.blocks = run.blocks + 1

\* C13: starting from phase 0 at a constant frequency f, the phase stored
\* after the callback has generated T samples in all is (2*pi*f*T/sample_rate)
\* mod 2*pi, however the T samples were split into blocks.
C13_PhaseOfTotalSamples ==
    (stream = OpenStream /\ run.blocks >= 1 /\ run.constant) =>
        phase = Wrap(run.frequency * run.samples)

\* two blocks of different sizes at one frequency, the phase having wrapped
C13_Witness ==
    /\ stream = OpenStream
    /\ run.constant
    /\ run.blocks = 2
    /\ run.samples = 768
    /\ phase # run.frequency * run.samples
    /\ phase # 0

\* C14: when frequency and volume change only between two callbacks, the sine
\* argument of sample 0 of the next block is the phase the previous block
\* left, which is the argument the previous block's waveform would have had
\* at sample index frames, modulo 2*pi.
C14_PhaseContinuity ==
    [][ (CallbackReturns /\ prev # Nothing) =>
            /\ SineArg(prev'.frequency, 0, prev'.phase0) = phase
            /\ phase = Wrap(SineArg(prev.frequency, prev.frames, prev.phase0)) ]_vars

\* a second block at another frequency and volume than the first, started
\* from the phase the first one left
C14_Witness ==
    /\ slast.op = "callback"
    /\ run.blocks = 2
    /\ ~run.constant
    /\ prev.frequency # run.frequency
    /\ prev.volume # Vol(DefaultVolume)
    /\ prev.phase0 # 0

\* C15: under every interleaving of the callback with set_frequency,
\* set_volume or soundscape on another thread, the frequency a block's
\* samples were computed from is the frequency its phase was advanced by.
C15_OnePairPerBlock ==
    prev # Nothing => prev.advanced_at = prev.frequency

\* clamp(signal_strength / max_expected_strength, 0, 1)
ClampedRatio(signal_strength) ==
    LET q == Frac(signal_strength.n, signal_strength.d * max_expected_strength)
    IN  IF q.n < 0 THEN Frac(0, 1) ELSE IF q.n > q.d THEN Frac(1, 1) ELSE q

\* C16: for every strength, negative and above 100 included, soundscape sets
\* volume = 0.05 + 0.65*r and frequency = 400 + 600*r with
\* r = clamp(strength/100, 0, 1), so volume is within [0.05, 0.7] and
\* frequency within [400, 1000], whatever the shape ratio.
C16_SoundscapeClamped ==
    slast.op = "soundscape" =>
        LET r == ClampedRatio(slast.arg)
        IN  /\ r.d * (current_volume - Vol(min_volume)) =
                   (Vol(max_volume) - Vol(min_volume)) * r.n
            /\ r.d * (current_frequency - min_freq) = (max_freq - min_freq) * r.n
            /\ Vol(min_volume) <= current_volume
            /\ current_volume <= Vol(max_volume)
            /\ min_freq <= current_frequency
            /\ current_frequency <= max_freq

\* C17: after any sequence of set_volume and soundscape calls current_volume
\* is within [0, 1].
C17_VolumeInUnitRange ==
    0 <= current_volume /\ current_volume <= VolScale

\* C18: start_tone while playing changes nothing; while not playing it sets
\* is_playing, resets phase to 0 and opens exactly one output stream.
C18_StartToneOnce ==
    [][ slast'.op = "start_tone" =>
            IF is_playing
            THEN UNCHANGED <<is_playing, stream, phase, streams_open,
                             current_frequency, current_volume>>
            ELSE /\ is_playing'
                 /\ phase' = 0
                 /\ stream' = OpenStream
                 /\ streams_open' = streams_open + 1 ]_vars

\* start_tone was called on a playing tone whose phase had moved on
C18_Witness ==
    /\ slast.op = "start_tone"
    /\ slast.was_playing
    /\ is_playing
    /\ run.blocks >= 1
    /\ phase # 0
    /\ streams_open = 1

\* C19: stop_tone while not playing changes nothing; while playing it clears
\* is_playing, stops and discards the stream and leaves phase = 0; frequency
\* and volume stay as they were in both cases.
C19_StopToneOnce ==
    [][ slast'.op = "stop_tone" =>
            /\ UNCHANGED <<current_frequency, current_volume>>
            /\ IF ~is_playing
               THEN UNCHANGED <<is_playing, stream, phase, streams_open>>
               ELSE /\ ~is_playing'
                    /\ stream' = NoStream
                    /\ streams_open' = streams_open - 1
                    /\ phase' = 0 ]_vars

\* a tone with frequency and volume set by soundscape was stopped
C19_Witness ==
    /\ slast.op = "stop_tone"
    /\ slast.was_playing
    /\ ~is_playing
    /\ stream = NoStream
    /\ streams_open = 0
    /\ phase = 0
    /\ current_frequency # DefaultFrequency
    /\ current_volume # Vol(DefaultVolume)

\* C20: when soundscape returns the oscillator is playing: called while not
\* playing it starts the tone, called while playing it only sets frequency
\* and volume and leaves the phase alone.
C20_SoundscapeEnsuresPlaying ==
    [][ slast'.op = "soundscape" =>
            /\ is_playing'
            /\ IF is_playing
               THEN UNCHANGED <<stream, phase, streams_open>>
               ELSE /\ stream' = OpenStream
                    /\ phase' = 0
                    /\ streams_open' = streams_open + 1 ]_vars

\* soundscape was called on a playing tone whose phase had moved on
C20_Witness ==
    /\ slast.op = "soundscape"
    /\ slast.was_playing
    /\ is_playing
    /\ run.blocks >= 1
    /\ phase # 0

(***************************************************************************)
(* Claims about the documented examples and the accumulating tracker       *)
(***************************************************************************)
FracEq(a, b) == a.n * b.d = b.n * a.d

\* C21: the samples [10, 20, ..., 100] with start_index = 2 and end_trim = 1
\* give total_sum = 420 and first_half_sum = 12.0, with
\* diff = first_half_sum - second_half_sum.
C21_DocumentedExample ==
    [][ extract_signal_features(Ramp(10), 2, 1) =>
            /\ current_features'.total_sum = 420 * FScale
            /\ current_features'.first_half_sum = 12 * FScale
            /\ current_features'.diff = current_features'.first_half_sum
                                          - current_features'.second_half_sum ]_vars

NormalizeReturned == nlast.op = "normalize_samples"

\* the subset samples[first:last] of the last normalize_samples call
NormalizedSubset ==
    PySliceAny(nlast.samples, nlast.first,
               IF nlast.last.given THEN nlast.last.v ELSE Len(nlast.samples))

NormalizeExampleResult == <<Frac(0, 1), Frac(3, 8), Frac(1, 1), Frac(3, 4), Frac(1, 2)>>

\* C22: normalize_samples returns a list as long as samples[first:last] whose
\* i-th element is (s_i - min)/(max - min), all 0.5 when the subset's values
\* are all equal and [] when it is empty; the documented example gives
\* [0.0, 0.375, 1.0, 0.75, 0.5].
C22_NormalizeToUnitRange ==
    NormalizeReturned =>
        LET subset == NormalizedSubset
            ret    == nlast.ret
            idx    == 1..Len(subset)
        IN  /\ Len(ret) = Len(subset)
            /\ \A i \in idx :
                 LET lo == CHOOSE x \in {subset[j] : j \in idx} :
                               \A j \in idx : x <= subset[j]
                     hi == CHOOSE x \in {subset[j] : j \in idx} :
                               \A j \in idx : x >= subset[j]
                 IN  /\ ret[i].d > 0
                     /\ IF hi = lo
                        THEN FracEq(ret[i], Frac(1, 2))
                        ELSE /\ ret[i].n * (hi - lo) = (subset[i] - lo) * ret[i].d
                             /\ subset[i] = lo => ret[i].n = 0
                             /\ subset[i] = hi => ret[i].n = ret[i].d
            /\ (/\ nlast.samples = NormalizeExample
                /\ nlast.first = 1
                /\ nlast.last = Last(-1))
               => /\ Len(ret) = Len(NormalizeExampleResult)
                  /\ \A i \in 1..Len(ret) : FracEq(ret[i], NormalizeExampleResult[i])

\* the documented example was normalized
C22_Witness ==
    /\ NormalizeReturned
    /\ nlast.samples = NormalizeExample
    /\ nlast.first = 1
    /\ nlast.last = Last(-1)
    /\ Len(nlast.ret) = 5
    /\ nlast.ret[1].n = 0
    /\ nlast.ret[3].n = nlast.ret[3].d

\* C26: an update_peak_tracker call with tracked value current >= 0 adds
\* current to cumulative_total; when current > peak it sets peak to current
\* and ratio to second_half_sum / first_half_sum (0 when first_half_sum = 0),
\* otherwise it leaves peak and ratio alone; it returns no trigger event.
C26_Accumulating ==
    (TrackerReturned /\ TrackedValue >= 0) =>
        /\ current_features.cumulative_total = last.cumulative_total + TrackedValue
        /\ IF TrackedValue > last.peak
           THEN /\ current_features.peak = TrackedValue
                /\ current_features.ratio.d # 0
                /\ IF current_features.first_half_sum = 0
                   THEN current_features.ratio.n = 0
                   ELSE current_features.ratio.n * current_features.first_half_sum
                          = current_features.second_half_sum * current_features.ratio.d
           ELSE /\ current_features.peak = last.peak
                /\ current_features.ratio = last.ratio
        /\ last.ret = NoEvent

\* a second, higher peak was recorded with both windows non-zero and different
C26_Witness ==
    /\ TrackerReturned
    /\ TrackedValue > last.peak
    /\ last.peak > 0
    /\ current_features.first_half_sum # 0
    /\ current_features.second_half_sum # 0
    /\ current_features.first_half_sum # current_features.second_half_sum
    /\ current_features.peak = TrackedValue
    /\ last.ret = NoEvent

(***************************************************************************)
(* Claims about what a stored line changes (SpecLoop)                      *)
(***************************************************************************)
\* the filter object new is old after one update with the vector vec: the
\* first update stores vec, a later one smooths each element once
UpdatedOnce(old, new, vec) ==
    /\ new.f.initialized
    /\ Len(ObjAverage(new)) = Len(vec)
    /\ \A i \in 1..Len(vec) :
         IF ~old.f.initialized
         THEN ObjAverage(new)[i] = vec[i]
         ELSE LET avg   == ObjAverage(old)[i]
                  alpha == IF vec[i] < avg THEN old.f.alpha_fast ELSE old.f.alpha_slow
              IN  alpha.d * ObjAverage(new)[i]
                    = alpha.n * vec[i] + (alpha.d - alpha.n) * avg

\* the buffer new is old after one append of the curve
AppendedOnce(old, new, curve) ==
    new = Append(IF Len(old) >= TIME_BUFFER_SIZE THEN Tail(old) ELSE old, curve)

\* C28: while enable_sound is false a stored line updates both filters and
\* appends the curve, and leaves the feature set and the oscillator's
\* frequency, volume, phase and is_playing as they were.
C28_SoundDisabledFrame ==
    [][ (rlast'.outcome = "stored" /\ ~enable_sound) =>
            /\ UpdatedOnce(long_average_curve, long_average_curve', latest_curve'.values)
            /\ UpdatedOnce(fast_average_curve, fast_average_curve', latest_curve'.values)
            /\ AppendedOnce(data_buffer, data_buffer', latest_curve')
            /\ UNCHANGED current_features
            /\ UNCHANGED <<current_frequency, current_volume, phase, is_playing>> ]_vars

\* a line was stored with sound disabled after the filters had moved apart,
\* the feature set holding what an earlier pass with sound enabled extracted
C28_Witness ==
    /\ rlast.outcome = "stored"
    /\ ~rlast.sound
    /\ ~enable_sound
    /\ current_features.first_half_sum # 0
    /\ ObjAverage(long_average_curve) # ObjAverage(fast_average_curve)
    /\ Len(data_buffer) >= 3

\* C29: every line of 25 values updates the baseline filter once and the
\* signal filter once with the same vector, appends one curve to data_buffer
\* and sets latest_curve to it, values and times_us both of length 25, with
\* sound enabled or not and with the sound update failing or not.
C29_OneUpdateOneAppend ==
    [][ (rlast'.outcome # "none" /\ ~rlast'.bad /\ rlast'.count = CURVE_SAMPLE_SIZE) =>
            /\ UpdatedOnce(long_average_curve, long_average_curve', latest_curve'.values)
            /\ UpdatedOnce(fast_average_curve, fast_average_curve', latest_curve'.values)
            /\ AppendedOnce(data_buffer, data_buffer', latest_curve')
            /\ Len(latest_curve'.values) = CURVE_SAMPLE_SIZE
            /\ Len(latest_curve'.times_us) = CURVE_SAMPLE_SIZE ]_vars

\* a line was stored although its sound update failed, both filters smoothing
\* towards values that differ from their averages
C29_Witness ==
    /\ rlast.outcome = "stored"
    /\ rlast.sound
    /\ rlast.raised = "TypeError"
    /\ Len(data_buffer) >= 2
    /\ ObjAverage(long_average_curve) # latest_curve.values
    /\ ObjAverage(fast_average_curve) # latest_curve.values
    /\ ObjAverage(long_average_curve) # ObjAverage(fast_average_curve)

(***************************************************************************)
(* Claims about the loop thread (SpecThreads)                              *)
(***************************************************************************)
\* C23: no error raised while a line is handled ends the acquisition loop: a
\* loop thread ends only at the test of the while, finding is_reading false.
C23_OnlyShutdownEndsLoop ==
    [][ Threads' < Threads =>
            /\ ~is_reading
            /\ at_while' = at_while - 1
            /\ in_pass' = in_pass ]_vars

\* a thread that had caught a read error ended after stop_reading, curves of
\* earlier lines being stored
C23_Witness ==
    /\ read_thread
    /\ Threads = 0
    /\ ~is_reading
    /\ rlast.outcome = "read_error"
    /\ rlast.raised = "OSError"
    /\ Len(data_buffer) >= 1

\* C24: once is_reading is cleared by stop_reading and not set again by
\* start_reading, every loop thread eventually ends, and while there is no
\* loop thread no filter, store or feature state changes.
C24_LoopTerminates ==
    /\ (~is_reading) ~> (Threads = 0 \/ is_reading)
    /\ [][ (Threads = 0 /\ Threads' = 0) =>
              UNCHANGED <<long_average_curve, fast_average_curve, data_buffer,
                          latest_curve, current_features>> ]_vars

\* the thread has ended after stop_reading and its join, with curves stored
C24_Witness ==
    /\ read_thread
    /\ Threads = 0
    /\ ~is_reading
    /\ ~joining
    /\ starters = 0
    /\ Len(data_buffer) >= 2

\* C27: at most one acquisition loop thread is alive at any time.
C27_AtMostOneLoopThread == Threads <= 1

(***************************************************************************)
(* Claims about what a reader is handed and observes (SpecReaders)         *)
(***************************************************************************)
\* C25: what get_latest, get_buffer and get_average return are snapshots: a
\* write of the reader to what it holds changes neither data_buffer, nor
\* latest_curve, nor a filter's average, and a curve stored later changes
\* nothing the reader holds.
C25_ReadersGetSnapshots ==
    [][ /\ (\E k \in 1..MaxPasses, i \in WriteItems : reader_writes(k, i)) =>
              UNCHANGED <<data_buffer, latest_curve, long_average_curve,
                          fast_average_curve>>
        /\ ((\E line \in ReaderLines : loop_append(line)) \/ loop_publish) =>
              UNCHANGED held ]_vars

\* C30: in every state a reader can observe, latest_curve is None exactly
\* when data_buffer is empty, and otherwise it is the newest element of
\* data_buffer.
C30_LatestIsNewest ==
    IF data_buffer = <<>>
    THEN latest_curve = NoCurve
    ELSE latest_curve = data_buffer[Len(data_buffer)]

(***************************************************************************)
(* Claims about successive runs of the peak tracker (SpecRuns)             *)
(***************************************************************************)
\* C33: whenever update_peak_tracker returns a trigger event, a call since
\* the previous reset set the peak of the run that ends, and the payload
\* encodes the ratio computed in the last such call.
C33_PayloadRatioOfThisRun ==
    [][ (calls' = calls + 1 /\ last'.ret.kind = "play") =>
            /\ peak_call.made
            /\ last'.ret = PlayEvent(force_two_digit(Num(100 * peak_call.ratio.n,
                                                         peak_call.ratio.d)).s) ]_vars

\* a second run ended with a trigger whose ratio is another than the one the
\* run before had left over
C33_Witness ==
    /\ Triggered
    /\ calls = MaxRunCalls
    /\ peak_call.before.n # 0
    /\ ~FracEq(peak_call.before, last.ratio)
    /\ FracEq(peak_call.left_over, last.ratio)
    /\ last.ret.num # force_two_digit(Num(100 * peak_call.before.n,
                                          peak_call.before.d)).s

(***************************************************************************)
(* Claims about the oscillator called from several threads (SpecTone)      *)
(***************************************************************************)
\* no start_tone or stop_tone call is in progress
ToneQuiescent == starting = 0 /\ stopping = 0

\* C32: two streams are never open at once, and whenever no start_tone or
\* stop_tone call is in progress is_playing is true exactly when one output
\* stream is open.
C32_PlayingIffOneStream ==
    /\ streams_open <= 1
    /\ ToneQuiescent => (is_playing <=> streams_open = 1)

(***************************************************************************)
(* Claims about the two filters of the loop under clear_buffer (SpecClear)  *)
(***************************************************************************)
\* C31: whenever neither clear_buffer nor a pass over a line is in progress,
\* the baseline filter and the signal filter have been updated the same
\* number of times since their last reset and their initialized flags are
\* equal.
C31_FiltersInStep ==
    updating = <<>> =>
        /\ updates.long = updates.fast
        /\ long_average_curve.f.initialized = fast_average_curve.f.initialized

(***************************************************************************)
(* Claims about the announcers' queue and workers (SpecVoice)               *)
(***************************************************************************)
\* the items spoken that were accepted since the last stop, in the order
\* they were spoken
RECURSIVE SpokenSince(_, _)
SpokenSince(s, k) ==
    IF s = <<>> THEN <<>>
    ELSE IF Head(s).item.stops = k
         THEN <<Head(s).item.n>> \o SpokenSince(Tail(s), k)
         ELSE SpokenSince(Tail(s), k)

Increasing(s) == \A i, j \in 1..Len(s) : i < j => s[i] < s[j]

\* C34: once start has returned, exactly one worker consumes the queue, the
\* items accepted since are played in the order accepted, and no item queued
\* before a stop is taken for playing after that stop has returned.
C34_OneWorkerInOrder ==
    /\ (running /\ ~stop_joining) => Workers = 1
    /\ Increasing(SpokenSince(spoken, stops))
    /\ \A i \in 1..Len(spoken) : spoken[i].at = spoken[i].item.stops
    /\ \A s \in speaking : s.at = s.item.stops

=============================================================================
